---- MODULE Spec2Model ----
(***************************************************************************)
(* Metadata resolution of the yt-queue popup: the ApiService class         *)
(* (retryWithBackoff, fetchWithTimeout, fetchVideoData, fetchPlaylistData, *)
(* fetchVideoDataFromNoEmbed, fetchWithFallback and the two id extractors),*)
(* the useErrorHandler hook, and the handlers of the App component that    *)
(* save, select, delete and export the items of the saved list.            *)
(*                                                                         *)
(* Text is modelled as a sequence of one-character strings, so that the    *)
(* regular expressions of the extractors and the template strings of the   *)
(* results are computed character by character.  A JavaScript value that   *)
(* may be absent (undefined / null) is modelled as a sequence of length 0  *)
(* or 1: None is <<>>, Some(v) is <<v>>.                                    *)
(***************************************************************************)
EXTENDS Integers, Sequences, FiniteSets, TLC

-----------------------------------------------------------------------------
(* Text literals *)

\* "abcdefghijklmnopqrstuvwxyzABCDEFGHIJKLMNOPQRSTUVWXYZ0123456789_"
WordCharSeq ==
    <<"a", "b", "c", "d", "e", "f", "g", "h", "i", "j", "k", "l", "m", "n", "o", "p", "q",
    "r", "s", "t", "u", "v", "w", "x", "y", "z", "A", "B", "C", "D", "E", "F", "G", "H",
    "I", "J", "K", "L", "M", "N", "O", "P", "Q", "R", "S", "T", "U", "V", "W", "X", "Y",
    "Z", "0", "1", "2", "3", "4", "5", "6", "7", "8", "9", "_">>

\* "dQw4w9WgXcQ"
SampleVideoId ==
    <<"d", "Q", "w", "4", "w", "9", "W", "g", "X", "c", "Q">>

\* "PLrAXtmRdnEQy6nuLMOV7V4r4s_nloyEfR"
SamplePlaylistId ==
    <<"P", "L", "r", "A", "X", "t", "m", "R", "d", "n", "E", "Q", "y", "6", "n", "u", "L",
    "M", "O", "V", "7", "V", "4", "r", "4", "s", "_", "n", "l", "o", "y", "E", "f", "R">>

\* "https://www.youtube.com/watch?v=dQw4w9WgXcQ"
UrlWatch ==
    <<"h", "t", "t", "p", "s", ":", "/", "/", "w", "w", "w", ".", "y", "o", "u", "t", "u",
    "b", "e", ".", "c", "o", "m", "/", "w", "a", "t", "c", "h", "?", "v", "=", "d", "Q",
    "w", "4", "w", "9", "W", "g", "X", "c", "Q">>

\* "https://youtu.be/dQw4w9WgXcQ"
UrlShortLink ==
    <<"h", "t", "t", "p", "s", ":", "/", "/", "y", "o", "u", "t", "u", ".", "b", "e", "/",
    "d", "Q", "w", "4", "w", "9", "W", "g", "X", "c", "Q">>

\* "https://www.youtube.com/playlist?list=PLrAXtmRdnEQy6nuLMOV7V4r4s_nloyEfR"
UrlPlaylist ==
    <<"h", "t", "t", "p", "s", ":", "/", "/", "w", "w", "w", ".", "y", "o", "u", "t", "u",
    "b", "e", ".", "c", "o", "m", "/", "p", "l", "a", "y", "l", "i", "s", "t", "?", "l",
    "i", "s", "t", "=", "P", "L", "r", "A", "X", "t", "m", "R", "d", "n", "E", "Q", "y",
    "6", "n", "u", "L", "M", "O", "V", "7", "V", "4", "r", "4", "s", "_", "n", "l", "o",
    "y", "E", "f", "R">>

\* "https://www.youtube.com/watch?v=dQw4w9WgXcQ&list=PLrAXtmRdnEQy6nuLMOV7V4r4s_nloyEfR"
UrlWatchInList ==
    <<"h", "t", "t", "p", "s", ":", "/", "/", "w", "w", "w", ".", "y", "o", "u", "t", "u",
    "b", "e", ".", "c", "o", "m", "/", "w", "a", "t", "c", "h", "?", "v", "=", "d", "Q",
    "w", "4", "w", "9", "W", "g", "X", "c", "Q", "&", "l", "i", "s", "t", "=", "P", "L",
    "r", "A", "X", "t", "m", "R", "d", "n", "E", "Q", "y", "6", "n", "u", "L", "M", "O",
    "V", "7", "V", "4", "r", "4", "s", "_", "n", "l", "o", "y", "E", "f", "R">>

\* "https://www.youtube.com/watch?v=short"
UrlShortId ==
    <<"h", "t", "t", "p", "s", ":", "/", "/", "w", "w", "w", ".", "y", "o", "u", "t", "u",
    "b", "e", ".", "c", "o", "m", "/", "w", "a", "t", "c", "h", "?", "v", "=", "s", "h",
    "o", "r", "t">>

\* "https://www.youtube.com/watch?v=short&list=PLrAXtmRdnEQy6nuLMOV7V4r4s_nloyEfR"
UrlShortIdInList ==
    <<"h", "t", "t", "p", "s", ":", "/", "/", "w", "w", "w", ".", "y", "o", "u", "t", "u",
    "b", "e", ".", "c", "o", "m", "/", "w", "a", "t", "c", "h", "?", "v", "=", "s", "h",
    "o", "r", "t", "&", "l", "i", "s", "t", "=", "P", "L", "r", "A", "X", "t", "m", "R",
    "d", "n", "E", "Q", "y", "6", "n", "u", "L", "M", "O", "V", "7", "V", "4", "r", "4",
    "s", "_", "n", "l", "o", "y", "E", "f", "R">>

\* "https://example.com/page"
UrlNoId ==
    <<"h", "t", "t", "p", "s", ":", "/", "/", "e", "x", "a", "m", "p", "l", "e", ".", "c",
    "o", "m", "/", "p", "a", "g", "e">>

\* "https://img.youtube.com/vi/"
ThumbPrefix ==
    <<"h", "t", "t", "p", "s", ":", "/", "/", "i", "m", "g", ".", "y", "o", "u", "t", "u",
    "b", "e", ".", "c", "o", "m", "/", "v", "i", "/">>

\* "/mqdefault.jpg"
ThumbSuffix ==
    <<"/", "m", "q", "d", "e", "f", "a", "u", "l", "t", ".", "j", "p", "g">>

\* "placeholder"
Placeholder ==
    <<"p", "l", "a", "c", "e", "h", "o", "l", "d", "e", "r">>

\* "Untitled"
Untitled ==
    <<"U", "n", "t", "i", "t", "l", "e", "d">>

\* "YouTube Playlist"
YouTubePlaylist ==
    <<"Y", "o", "u", "T", "u", "b", "e", " ", "P", "l", "a", "y", "l", "i", "s", "t">>

\* "YouTube Content"
YouTubeContent ==
    <<"Y", "o", "u", "T", "u", "b", "e", " ", "C", "o", "n", "t", "e", "n", "t">>

\* "YouTube Video ("
YouTubeVideoOpen ==
    <<"Y", "o", "u", "T", "u", "b", "e", " ", "V", "i", "d", "e", "o", " ", "(">>

\* "YouTube Playlist ("
YouTubePlaylistOpen ==
    <<"Y", "o", "u", "T", "u", "b", "e", " ", "P", "l", "a", "y", "l", "i", "s", "t", " ",
    "(">>

\* ")"
CloseParen ==
    <<")">>

\* "list="
ListEq ==
    <<"l", "i", "s", "t", "=">>

\* "Test Video"
TestVideo ==
    <<"T", "e", "s", "t", " ", "V", "i", "d", "e", "o">>

\* "Test Playlist"
TestPlaylist ==
    <<"T", "e", "s", "t", " ", "P", "l", "a", "y", "l", "i", "s", "t">>

\* "https://example.com/thumb.jpg"
ServerThumb ==
    <<"h", "t", "t", "p", "s", ":", "/", "/", "e", "x", "a", "m", "p", "l", "e", ".", "c",
    "o", "m", "/", "t", "h", "u", "m", "b", ".", "j", "p", "g">>

\* "https://example.com/thumb1.jpg"
ServerThumb1 ==
    <<"h", "t", "t", "p", "s", ":", "/", "/", "e", "x", "a", "m", "p", "l", "e", ".", "c",
    "o", "m", "/", "t", "h", "u", "m", "b", "1", ".", "j", "p", "g">>

\* "https://example.com/thumb2.jpg"
ServerThumb2 ==
    <<"h", "t", "t", "p", "s", ":", "/", "/", "e", "x", "a", "m", "p", "l", "e", ".", "c",
    "o", "m", "/", "t", "h", "u", "m", "b", "2", ".", "j", "p", "g">>

\* "404 Not Found"
NotFound ==
    <<"4", "0", "4", " ", "N", "o", "t", " ", "F", "o", "u", "n", "d">>

\* "Maximum call stack size exceeded"
InternalError ==
    <<"M", "a", "x", "i", "m", "u", "m", " ", "c", "a", "l", "l", " ", "s", "t", "a", "c",
    "k", " ", "s", "i", "z", "e", " ", "e", "x", "c", "e", "e", "d", "e", "d">>

\* "https://img.youtube.com/vi/dQw4w9WgXcQ/mqdefault.jpg"
SampleThumbnail ==
    <<"h", "t", "t", "p", "s", ":", "/", "/", "i", "m", "g", ".", "y", "o", "u", "t", "u",
    "b", "e", ".", "c", "o", "m", "/", "v", "i", "/", "d", "Q", "w", "4", "w", "9", "W",
    "g", "X", "c", "Q", "/", "m", "q", "d", "e", "f", "a", "u", "l", "t", ".", "j", "p",
    "g">>

\* "https://www.youtube.com/embed/dQw4w9WgXcQ"
UrlEmbed ==
    <<"h", "t", "t", "p", "s", ":", "/", "/", "w", "w", "w", ".", "y", "o", "u", "t", "u",
    "b", "e", ".", "c", "o", "m", "/", "e", "m", "b", "e", "d", "/", "d", "Q", "w", "4",
    "w", "9", "W", "g", "X", "c", "Q">>

\* "https://www.youtube.com/v/dQw4w9WgXcQ"
UrlV ==
    <<"h", "t", "t", "p", "s", ":", "/", "/", "w", "w", "w", ".", "y", "o", "u", "t", "u",
    "b", "e", ".", "c", "o", "m", "/", "v", "/", "d", "Q", "w", "4", "w", "9", "W", "g",
    "X", "c", "Q">>

\* "https://www.youtube.com/watch?feature=share&v=dQw4w9WgXcQ"
UrlAndV ==
    <<"h", "t", "t", "p", "s", ":", "/", "/", "w", "w", "w", ".", "y", "o", "u", "t", "u",
    "b", "e", ".", "c", "o", "m", "/", "w", "a", "t", "c", "h", "?", "f", "e", "a", "t",
    "u", "r", "e", "=", "s", "h", "a", "r", "e", "&", "v", "=", "d", "Q", "w", "4", "w",
    "9", "W", "g", "X", "c", "Q">>

\* "https://youtu.be/dQw4w9WgXcQ?t=42"
UrlShortLinkAt ==
    <<"h", "t", "t", "p", "s", ":", "/", "/", "y", "o", "u", "t", "u", ".", "b", "e", "/",
    "d", "Q", "w", "4", "w", "9", "W", "g", "X", "c", "Q", "?", "t", "=", "4", "2">>

\* "https://www.youtube.com/watch?v=dQw4w9WgXcQ12"
UrlLongId ==
    <<"h", "t", "t", "p", "s", ":", "/", "/", "w", "w", "w", ".", "y", "o", "u", "t", "u",
    "b", "e", ".", "c", "o", "m", "/", "w", "a", "t", "c", "h", "?", "v", "=", "d", "Q",
    "w", "4", "w", "9", "W", "g", "X", "c", "Q", "1", "2">>

\* "https://youtu.be/"
UrlEmptyId ==
    <<"h", "t", "t", "p", "s", ":", "/", "/", "y", "o", "u", "t", "u", ".", "b", "e",
    "/">>

\* "https://www.youtube.com/watch?v=dQw4w9WgXcQ&list=RDdQw4w9WgXcQ&index=2"
UrlMixList ==
    <<"h", "t", "t", "p", "s", ":", "/", "/", "w", "w", "w", ".", "y", "o", "u", "t", "u",
    "b", "e", ".", "c", "o", "m", "/", "w", "a", "t", "c", "h", "?", "v", "=", "d", "Q",
    "w", "4", "w", "9", "W", "g", "X", "c", "Q", "&", "l", "i", "s", "t", "=", "R", "D",
    "d", "Q", "w", "4", "w", "9", "W", "g", "X", "c", "Q", "&", "i", "n", "d", "e", "x",
    "=", "2">>

\* "https://www.youtube.com/playlist?list=WL&list=PLrAXtmRdnEQy6nuLMOV7V4r4s_nloyEfR"
UrlTwoLists ==
    <<"h", "t", "t", "p", "s", ":", "/", "/", "w", "w", "w", ".", "y", "o", "u", "t", "u",
    "b", "e", ".", "c", "o", "m", "/", "p", "l", "a", "y", "l", "i", "s", "t", "?", "l",
    "i", "s", "t", "=", "W", "L", "&", "l", "i", "s", "t", "=", "P", "L", "r", "A", "X",
    "t", "m", "R", "d", "n", "E", "Q", "y", "6", "n", "u", "L", "M", "O", "V", "7", "V",
    "4", "r", "4", "s", "_", "n", "l", "o", "y", "E", "f", "R">>

\* "https://www.youtube.com/playlist?list=LL#top"
UrlListFragment ==
    <<"h", "t", "t", "p", "s", ":", "/", "/", "w", "w", "w", ".", "y", "o", "u", "t", "u",
    "b", "e", ".", "c", "o", "m", "/", "p", "l", "a", "y", "l", "i", "s", "t", "?", "l",
    "i", "s", "t", "=", "L", "L", "#", "t", "o", "p">>

\* "https://example.com/?playlist=abc"
UrlNotAListParam ==
    <<"h", "t", "t", "p", "s", ":", "/", "/", "e", "x", "a", "m", "p", "l", "e", ".", "c",
    "o", "m", "/", "?", "p", "l", "a", "y", "l", "i", "s", "t", "=", "a", "b", "c">>

\* "https://www.youtube.com/playlist?list="
UrlEmptyList ==
    <<"h", "t", "t", "p", "s", ":", "/", "/", "w", "w", "w", ".", "y", "o", "u", "t", "u",
    "b", "e", ".", "c", "o", "m", "/", "p", "l", "a", "y", "l", "i", "s", "t", "?", "l",
    "i", "s", "t", "=">>

\* "RDdQw4w9WgXcQ"
MixListId ==
    <<"R", "D", "d", "Q", "w", "4", "w", "9", "W", "g", "X", "c", "Q">>

\* "WL"
WatchLaterId ==
    <<"W", "L">>

\* "LL"
LikedListId ==
    <<"L", "L">>

\* a lone surrogate, the code unit U+D800 on its own: one character of a
\* JavaScript string, written here as one token
LoneSurrogate == "D800"

\* "clip" followed by a lone surrogate
UrlLoneSurrogate ==
    <<"c", "l", "i", "p", LoneSurrogate>>

\* "invalid-url"
UrlInvalid ==
    <<"i", "n", "v", "a", "l", "i", "d", "-", "u", "r", "l">>

\* "Please enter a YouTube URL."
EnterUrlMessage ==
    <<"P", "l", "e", "a", "s", "e", " ", "e", "n", "t", "e", "r", " ", "a", " ", "Y", "o",
    "u", "T", "u", "b", "e", " ", "U", "R", "L", ".">>

\* "Invalid URL. Please enter a valid YouTube video or playlist URL."
InvalidUrlMessage ==
    <<"I", "n", "v", "a", "l", "i", "d", " ", "U", "R", "L", ".", " ", "P", "l", "e", "a",
    "s", "e", " ", "e", "n", "t", "e", "r", " ", "a", " ", "v", "a", "l", "i", "d", " ",
    "Y", "o", "u", "T", "u", "b", "e", " ", "v", "i", "d", "e", "o", " ", "o", "r", " ",
    "p", "l", "a", "y", "l", "i", "s", "t", " ", "U", "R", "L", ".">>

\* "Failed to fetch video information. Please try again."
FetchFailedMessage ==
    <<"F", "a", "i", "l", "e", "d", " ", "t", "o", " ", "f", "e", "t", "c", "h", " ", "v",
    "i", "d", "e", "o", " ", "i", "n", "f", "o", "r", "m", "a", "t", "i", "o", "n", ".", " ",
    "P", "l", "e", "a", "s", "e", " ", "t", "r", "y", " ", "a", "g", "a", "i", "n",
    ".">>

\* "Failed to fetch video data"
FetchDataMessage ==
    <<"F", "a", "i", "l", "e", "d", " ", "t", "o", " ", "f", "e", "t", "c", "h", " ", "v",
    "i", "d", "e", "o", " ", "d", "a", "t", "a">>

\* "Network error. Please check your connection and try again."
NetworkMessage ==
    <<"N", "e", "t", "w", "o", "r", "k", " ", "e", "r", "r", "o", "r", ".", " ", "P", "l",
    "e", "a", "s", "e", " ", "c", "h", "e", "c", "k", " ", "y", "o", "u", "r", " ", "c",
    "o", "n", "n", "e", "c", "t", "i", "o", "n", " ", "a", "n", "d", " ", "t", "r", "y", " ",
    "a", "g", "a", "i", "n", ".">>

\* "Service temporarily unavailable. Please try again later."
ServiceMessage ==
    <<"S", "e", "r", "v", "i", "c", "e", " ", "t", "e", "m", "p", "o", "r", "a", "r", "i",
    "l", "y", " ", "u", "n", "a", "v", "a", "i", "l", "a", "b", "l", "e", ".", " ", "P",
    "l", "e", "a", "s", "e", " ", "t", "r", "y", " ", "a", "g", "a", "i", "n", " ", "l",
    "a", "t", "e", "r", ".">>

\* "An unexpected error occurred"
UnexpectedMessage ==
    <<"A", "n", " ", "u", "n", "e", "x", "p", "e", "c", "t", "e", "d", " ", "e", "r", "r",
    "o", "r", " ", "o", "c", "c", "u", "r", "r", "e", "d">>

\* "Custom error message"
CustomMessage ==
    <<"C", "u", "s", "t", "o", "m", " ", "e", "r", "r", "o", "r", " ", "m", "e", "s", "s",
    "a", "g", "e">>

\* "network"
KwNetwork ==
    <<"n", "e", "t", "w", "o", "r", "k">>

\* "fetch"
KwFetch ==
    <<"f", "e", "t", "c", "h">>

\* "validation"
KwValidation ==
    <<"v", "a", "l", "i", "d", "a", "t", "i", "o", "n">>

\* "Invalid"
KwInvalid ==
    <<"I", "n", "v", "a", "l", "i", "d">>

\* "API"
KwApi ==
    <<"A", "P", "I">>

\* "response"
KwResponse ==
    <<"r", "e", "s", "p", "o", "n", "s", "e">>

\* "Network error occurred"
ErrNetworkOccurred ==
    <<"N", "e", "t", "w", "o", "r", "k", " ", "e", "r", "r", "o", "r", " ", "o", "c", "c",
    "u", "r", "r", "e", "d">>

\* "fetch failed"
ErrFetchFailed ==
    <<"f", "e", "t", "c", "h", " ", "f", "a", "i", "l", "e", "d">>

\* "Invalid input validation"
ErrInvalidInput ==
    <<"I", "n", "v", "a", "l", "i", "d", " ", "i", "n", "p", "u", "t", " ", "v", "a", "l",
    "i", "d", "a", "t", "i", "o", "n">>

\* "API response error"
ErrApiResponse ==
    <<"A", "P", "I", " ", "r", "e", "s", "p", "o", "n", "s", "e", " ", "e", "r", "r", "o",
    "r">>

\* "Unknown error"
ErrUnknown ==
    <<"U", "n", "k", "n", "o", "w", "n", " ", "e", "r", "r", "o", "r">>

\* "API Error"
ErrApi ==
    <<"A", "P", "I", " ", "E", "r", "r", "o", "r">>

\* "Invalid network address"
ErrInvalidNetwork ==
    <<"I", "n", "v", "a", "l", "i", "d", " ", "n", "e", "t", "w", "o", "r", "k", " ", "a",
    "d", "d", "r", "e", "s", "s">>

\* "Invalid API key"
ErrInvalidApiKey ==
    <<"I", "n", "v", "a", "l", "i", "d", " ", "A", "P", "I", " ", "k", "e", "y">>

\* "invalid api reply"
ErrLowerCase ==
    <<"i", "n", "v", "a", "l", "i", "d", " ", "a", "p", "i", " ", "r", "e", "p", "l",
    "y">>

\* "Bad response"
ErrBadResponse ==
    <<"B", "a", "d", " ", "r", "e", "s", "p", "o", "n", "s", "e">>

\* "youtu.be/"
YoutuBe ==
    <<"y", "o", "u", "t", "u", ".", "b", "e", "/">>

\* "youtube.com/watch?v="
YoutubeWatch ==
    <<"y", "o", "u", "t", "u", "b", "e", ".", "c", "o", "m", "/", "w", "a", "t", "c", "h",
    "?", "v", "=">>

\* "youtube.com/embed/"
YoutubeEmbed ==
    <<"y", "o", "u", "t", "u", "b", "e", ".", "c", "o", "m", "/", "e", "m", "b", "e", "d",
    "/">>

\* "youtube.com/v/"
YoutubeV ==
    <<"y", "o", "u", "t", "u", "b", "e", ".", "c", "o", "m", "/", "v", "/">>

-----------------------------------------------------------------------------
(* Optional values and JavaScript truthiness *)

None == <<>>

Some(v) == <<v>>

IsSome(o) == o # None

\* the value held by Some(v)
Get(o) == o[1]

\* truthiness of an optional string: null, undefined and "" are falsy
Truthy(o) == IsSome(o) /\ Get(o) # <<>>

\* a || b
JsOr(a, b) == IF Truthy(a) THEN a ELSE b

Min(a, b) == IF a <= b THEN a ELSE b

RECURSIVE Pow(_, _)
\* Math.pow(b, k) for naturals
Pow(b, k) == IF k = 0 THEN 1 ELSE b * Pow(b, k - 1)

Range(s) == {s[i] : i \in 1..Len(s)}

-----------------------------------------------------------------------------
(* The regular expressions of the id extractors *)

\* \w
WordChars == Range(WordCharSeq)

\* the characters "." does not match
LineTerminators == {"\n", "\r"}

\* [#&?], the characters that end an id
IdStop == {"#", "&", "?"}

\* one pattern element against one character: "ANY" is ".", "WORD" is \w,
\* anything else is a literal character
CharMatches(p, ch) ==
    CASE p = "ANY" -> ch \notin LineTerminators
      [] p = "WORD" -> ch \in WordChars
      [] OTHER -> ch = p

\* the pattern pat matches s at position i
MatchesAt(s, i, pat) ==
    /\ i + Len(pat) - 1 <= Len(s)
    /\ \A j \in 1..Len(pat) : CharMatches(pat[j], s[i + j - 1])

RECURSIVE RunEnd(_, _, _)
\* the last position of the longest run of characters outside stop that
\* starts at position i (i - 1 when the run is empty)
RunEnd(s, i, stop) ==
    IF i > Len(s) \/ s[i] \in stop THEN i - 1 ELSE RunEnd(s, i + 1, stop)

\* [^#&?]* at position i: the longest run of characters outside stop
RunFrom(s, i, stop) == SubSeq(s, i, RunEnd(s, i, stop))

\* faulty variant of VideoDelimiters: the embed/ alternative is missing
VideoDelimitersNoEmbed ==
    << <<"y", "o", "u", "t", "u", "ANY", "b", "e", "/">>,
       <<"v", "/">>,
       <<"u", "/", "WORD", "/">>,
       <<"w", "a", "t", "c", "h", "?", "v", "=">>,
       <<"&", "v", "=">> >>

\* (youtu.be\/|v\/|u\/\w\/|embed\/|watch\?v=|&v=), in the order of the source
VideoDelimiters ==
    << <<"y", "o", "u", "t", "u", "ANY", "b", "e", "/">>,
       <<"v", "/">>,
       <<"u", "/", "WORD", "/">>,
       <<"e", "m", "b", "e", "d", "/">>,
       <<"w", "a", "t", "c", "h", "?", "v", "=">>,
       <<"&", "v", "=">> >>

\* the positions at which ^.* can stop and a delimiter can start: the prefix
\* before them holds no line terminator
DelimiterStarts(s) ==
    LET firstLine == RunEnd(s, 1, LineTerminators)
    IN {i \in 1..Min(Len(s), firstLine + 1) :
           \E a \in 1..Len(VideoDelimiters) : MatchesAt(s, i, VideoDelimiters[a])}

\* url.match(/^.*(youtu.be\/|v\/|u\/\w\/|embed\/|watch\?v=|&v=)([^#&?]*).*/)[2]:
\* the greedy ^.* makes the last delimiter the one that is used
VideoIdCandidate(s) ==
    LET starts == DelimiterStarts(s)
        i == CHOOSE x \in starts : \A y \in starts : y <= x
        a == CHOOSE x \in 1..Len(VideoDelimiters) :
                 /\ MatchesAt(s, i, VideoDelimiters[x])
                 /\ \A y \in 1..(x - 1) : ~MatchesAt(s, i, VideoDelimiters[y])
    IN RunFrom(s, i + Len(VideoDelimiters[a]), IdStop)

IdLength == 11

\* faulty variant of matchVideoId: a candidate longer than 11 characters is
\* cut to its first 11
matchVideoIdTruncated(u) ==
    IF DelimiterStarts(u) = {}
    THEN None
    ELSE LET candidate == VideoIdCandidate(u)
         IN IF Len(candidate) >= IdLength
            THEN Some(SubSeq(candidate, 1, IdLength))
            ELSE None

\* getYouTubeID, computed from its regular expression
matchVideoId(u) ==
    IF DelimiterStarts(u) = {}
    THEN None
    ELSE LET candidate == VideoIdCandidate(u)
         IN IF Len(candidate) = IdLength THEN Some(candidate) ELSE None

\* the positions at which /[?&]list=([^#&?]+)/ matches
ListStarts(s) ==
    {i \in 1..Len(s) :
        /\ s[i] \in {"?", "&"}
        /\ MatchesAt(s, i + 1, ListEq)
        /\ Len(RunFrom(s, i + 1 + Len(ListEq), IdStop)) >= 1}

\* faulty variant of matchPlaylistId: only ids as long as the usual PL... ids
\* are accepted
matchPlaylistIdLengthChecked(u) ==
    IF ListStarts(u) = {}
    THEN None
    ELSE LET i == CHOOSE x \in ListStarts(u) : \A y \in ListStarts(u) : x <= y
             id == RunFrom(u, i + 1 + Len(ListEq), IdStop)
         IN IF Len(id) = Len(SamplePlaylistId) THEN Some(id) ELSE None

\* getYouTubePlaylistID, computed from its regular expression
matchPlaylistId(u) ==
    IF ListStarts(u) = {}
    THEN None
    ELSE LET i == CHOOSE x \in ListStarts(u) : \A y \in ListStarts(u) : x <= y
         IN Some(RunFrom(u, i + 1 + Len(ListEq), IdStop))

\* the strings fetchVideoData is called with
Urls ==
    {UrlWatch, UrlShortLink, UrlPlaylist, UrlWatchInList, UrlShortId,
     UrlShortIdInList, UrlNoId, UrlLoneSurrogate, <<>>}

\* strings of each shape the extractors tell apart
ExtractorUrls ==
    {UrlWatch, UrlShortLink, UrlEmbed, UrlV, UrlAndV, UrlShortLinkAt, UrlWatchInList,
     UrlShortId, UrlLongId, UrlEmptyId, UrlNoId, <<>>,
     UrlPlaylist, UrlMixList, UrlTwoLists, UrlListFragment, UrlNotAListParam,
     UrlEmptyList}

\* the extractors on these strings, each evaluated once
VideoIds == [u \in Urls \cup ExtractorUrls |-> matchVideoId(u)]

PlaylistIds == [u \in Urls \cup ExtractorUrls |-> matchPlaylistId(u)]

getYouTubeID(u) == VideoIds[u]

getYouTubePlaylistID(u) == PlaylistIds[u]

\* encodeURIComponent(u) returns: it throws a URIError on a lone surrogate
Encodable(u) == LoneSurrogate \notin Range(u)

-----------------------------------------------------------------------------
(* The retry policy *)

CfgMaxRetries == 3

CfgBaseDelay == 1000

CfgMaxDelay == 10000

CfgBackoffFactor == 2

\* ApiService.retryConfig as the class sets it
ConfiguredPolicy ==
    [maxRetries |-> CfgMaxRetries, baseDelay |-> CfgBaseDelay,
     maxDelay |-> CfgMaxDelay, backoffFactor |-> CfgBackoffFactor]

\* the largest maxRetries of the policies the retrier is run under
PolicyMaxRetries == 5

\* policies (RetryConfig values) the retrier is run under, the configured
\* one among them; backoffFactor > 1
Policies ==
    [maxRetries : 0..PolicyMaxRetries, baseDelay : {100, CfgBaseDelay},
     maxDelay : {500, CfgMaxDelay}, backoffFactor : {CfgBackoffFactor, 3}]

\* faulty variant of backoffDelay: the cap is left out
backoffDelayUncapped(cfg, k) == cfg.baseDelay * Pow(cfg.backoffFactor, k)

\* faulty variant of backoffDelay: the exponent counts the retry about to be made
backoffDelayNextPower(cfg, k) ==
    Min(cfg.baseDelay * Pow(cfg.backoffFactor, k + 1), cfg.maxDelay)

\* Math.min(baseDelay * Math.pow(backoffFactor, retryCount), maxDelay)
backoffDelay(cfg, k) ==
    Min(cfg.baseDelay * Pow(cfg.backoffFactor, k), cfg.maxDelay)

\* faulty variant of retriesExhausted: the failure is rethrown one retry early
retriesExhaustedEarly(cfg, k) == k + 1 >= cfg.maxRetries

\* faulty variant of retriesExhausted: > for >=
retriesExhaustedLate(cfg, k) == k > cfg.maxRetries

\* the guard of the catch block of retryWithBackoff: the failure is rethrown
retriesExhausted(cfg, k) == k >= cfg.maxRetries

\* the default of fetchWithTimeout's timeout parameter, in ms
DefaultTimeout == 10000

-----------------------------------------------------------------------------
(* Responses of the endpoints *)

NoEmbed == "noembed"

PlaylistApi == "youtubemultidownloader"

\* HTTP statuses the endpoints answer with
Statuses == {200, 404, 500}

\* Response.ok
ResponseOk(status) == status \in 200..299

Item(thumb) == [thumbnail |-> thumb]

PlaylistInfo(title, items) == [title |-> title, items |-> items]

\* a decoded JSON object with the fields the service reads
Object(error, title, thumb, info) ==
    [kind |-> "object", error |-> error, title |-> title,
     thumbnail_url |-> thumb, playlist_info |-> info]

\* a body response.json() rejects on
Malformed == [Object(None, None, None, None) EXCEPT !.kind = "malformed"]

\* the JSON text null
JsonNull == [Object(None, None, None, None) EXCEPT !.kind = "null"]

\* what response.json() can settle with
Bodies ==
    { Malformed,
      JsonNull,
      Object(None, None, None, None),
      Object(Some(NotFound), None, None, None),
      Object(None, Some(TestVideo), Some(ServerThumb), None),
      Object(None, Some(TestVideo), None, None),
      Object(None, Some(<<>>), Some(ServerThumb), None),
      Object(Some(NotFound), Some(TestVideo), Some(ServerThumb),
             Some(PlaylistInfo(Some(TestPlaylist), Some(<<Item(Some(ServerThumb1))>>)))),
      \* { error: "", title, playlist_info }: an error field that is falsy
      Object(Some(<<>>), Some(TestVideo), None,
             Some(PlaylistInfo(Some(TestPlaylist), Some(<<Item(Some(ServerThumb1))>>)))),
      Object(None, None, None, Some(PlaylistInfo(Some(TestPlaylist), None))),
      Object(None, None, None, Some(PlaylistInfo(Some(TestPlaylist), Some(<<>>)))),
      Object(None, None, None,
             Some(PlaylistInfo(Some(TestPlaylist), Some(<<Item(Some(ServerThumb1))>>)))),
      Object(None, None, None,
             Some(PlaylistInfo(None, Some(<<Item(Some(ServerThumb1)),
                                            Item(Some(ServerThumb2))>>)))),
      Object(None, None, None,
             Some(PlaylistInfo(Some(TestPlaylist), Some(<<Item(None),
                                                          Item(Some(ServerThumb2))>>)))) }

-----------------------------------------------------------------------------
(* Results: ApiResponse<{ title, thumbnailUrl }> *)

ApiResponse(title, thumb, success, error, source) ==
    [data |-> [title |-> title, thumbnailUrl |-> thumb],
     success |-> success, error |-> error, source |-> source]

\* no result yet
NoResult == ApiResponse(None, None, FALSE, None, "none")

\* `https://img.youtube.com/vi/${videoId}/mqdefault.jpg`
ThumbnailOf(id) == ThumbPrefix \o id \o ThumbSuffix

\* what an invocation of an operation ends with: a value or a thrown error
Returned(v) == [ok |-> TRUE, value |-> v, error |-> "none"]

Thrown(kind) == [ok |-> FALSE, value |-> NoResult, error |-> kind]

\* faulty variant of playlistOperation: the items of playlist_info are not
\* validated, a body without any gives the sentinel thumbnail
playlistOperationLenient(body) ==
    CASE body.kind = "malformed" -> Thrown("SyntaxError")
      [] body.kind = "null" -> Thrown("TypeError")
      [] Truthy(body.error) -> Thrown("invalid")
      [] ~IsSome(body.playlist_info) -> Thrown("invalid")
      [] OTHER ->
           LET playlistInfo == Get(body.playlist_info)
               firstVideoThumbnail ==
                   IF IsSome(playlistInfo.items) /\ Len(Get(playlistInfo.items)) > 0
                   THEN Get(playlistInfo.items)[1].thumbnail
                   ELSE None
           IN Returned(ApiResponse(JsOr(playlistInfo.title, Some(YouTubePlaylist)),
                                   JsOr(firstVideoThumbnail, Some(Placeholder)),
                                   TRUE, None, "primary"))

\* faulty variant of playlistOperation: the thumbnail is taken from the first
\* item that has one
playlistOperationAnyThumbnail(body) ==
    CASE body.kind = "malformed" -> Thrown("SyntaxError")
      [] body.kind = "null" -> Thrown("TypeError")
      [] Truthy(body.error) -> Thrown("invalid")
      [] ~IsSome(body.playlist_info) -> Thrown("invalid")
      [] ~IsSome(Get(body.playlist_info).items) -> Thrown("TypeError")
      [] Len(Get(Get(body.playlist_info).items)) = 0 -> Thrown("invalid")
      [] OTHER ->
           LET playlistInfo == Get(body.playlist_info)
               items == Get(playlistInfo.items)
               withThumbnail == {i \in 1..Len(items) : Truthy(items[i].thumbnail)}
               firstVideoThumbnail ==
                   IF withThumbnail = {} THEN None
                   ELSE items[CHOOSE i \in withThumbnail :
                                  \A j \in withThumbnail : i <= j].thumbnail
           IN Returned(ApiResponse(JsOr(playlistInfo.title, Some(YouTubePlaylist)),
                                   JsOr(firstVideoThumbnail, Some(Placeholder)),
                                   TRUE, None, "primary"))

\* fetchPlaylistData's operation, from `const data = await response.json()` on
playlistOperation(body) ==
    CASE body.kind = "malformed" -> Thrown("SyntaxError")
      [] body.kind = "null" -> Thrown("TypeError")
      [] Truthy(body.error) -> Thrown("invalid")
      [] ~IsSome(body.playlist_info) -> Thrown("invalid")
      [] ~IsSome(Get(body.playlist_info).items) -> Thrown("TypeError")
      [] Len(Get(Get(body.playlist_info).items)) = 0 -> Thrown("invalid")
      [] OTHER ->
           LET playlistInfo == Get(body.playlist_info)
               firstVideoThumbnail == Get(playlistInfo.items)[1].thumbnail
           IN Returned(ApiResponse(JsOr(playlistInfo.title, Some(YouTubePlaylist)),
                                   JsOr(firstVideoThumbnail, Some(Placeholder)),
                                   TRUE, None, "primary"))

\* faulty variant of noEmbedOperation: a body without a title is rejected
noEmbedOperationRequiresTitle(body, u) ==
    CASE body.kind = "malformed" -> Thrown("SyntaxError")
      [] body.kind = "null" -> Thrown("TypeError")
      [] Truthy(body.error) -> Thrown("oEmbed error")
      [] ~Truthy(body.title) -> Thrown("oEmbed error")
      [] OTHER ->
           LET currentVideoId == getYouTubeID(u)
               thumbnailUrl == IF Truthy(currentVideoId)
                               THEN Some(ThumbnailOf(Get(currentVideoId)))
                               ELSE body.thumbnail_url
           IN Returned(ApiResponse(JsOr(body.title, Some(Untitled)), thumbnailUrl,
                                   TRUE, None, "primary"))

\* faulty variant of noEmbedOperation: the server's thumbnail_url is preferred
\* to the one built from the video id
noEmbedOperationServerThumb(body, u) ==
    CASE body.kind = "malformed" -> Thrown("SyntaxError")
      [] body.kind = "null" -> Thrown("TypeError")
      [] Truthy(body.error) -> Thrown("oEmbed error")
      [] OTHER ->
           LET currentVideoId == getYouTubeID(u)
               thumbnailUrl == IF Truthy(body.thumbnail_url)
                               THEN body.thumbnail_url
                               ELSE IF Truthy(currentVideoId)
                               THEN Some(ThumbnailOf(Get(currentVideoId)))
                               ELSE body.thumbnail_url
           IN Returned(ApiResponse(JsOr(body.title, Some(Untitled)), thumbnailUrl,
                                   TRUE, None, "primary"))

\* fetchVideoDataFromNoEmbed's operation, from `const data = await response.json()` on
noEmbedOperation(body, u) ==
    CASE body.kind = "malformed" -> Thrown("SyntaxError")
      [] body.kind = "null" -> Thrown("TypeError")
      [] Truthy(body.error) -> Thrown("oEmbed error")
      [] OTHER ->
           LET currentVideoId == getYouTubeID(u)
               thumbnailUrl == IF Truthy(currentVideoId)
                               THEN Some(ThumbnailOf(Get(currentVideoId)))
                               ELSE body.thumbnail_url
           IN Returned(ApiResponse(JsOr(body.title, Some(Untitled)), thumbnailUrl,
                                   TRUE, None, "primary"))

\* faulty variant of extractTitleFromUrl: the playlist id is looked at first
extractTitlePlaylistFirst(u) ==
    LET vid == getYouTubeID(u)
        pid == getYouTubePlaylistID(u)
    IN IF Truthy(pid) THEN YouTubePlaylistOpen \o Get(pid) \o CloseParen
       ELSE IF Truthy(vid) THEN YouTubeVideoOpen \o Get(vid) \o CloseParen
       ELSE YouTubeContent

extractTitleFromUrl(u) ==
    LET vid == getYouTubeID(u)
        pid == getYouTubePlaylistID(u)
    IN IF Truthy(vid) THEN YouTubeVideoOpen \o Get(vid) \o CloseParen
       ELSE IF Truthy(pid) THEN YouTubePlaylistOpen \o Get(pid) \o CloseParen
       ELSE YouTubeContent

\* faulty variant of fetchWithFallback: the synthesized result is tagged 'primary'
fetchWithFallbackTaggedPrimary(u, vid, fault) ==
    IF fault = None
    THEN ApiResponse(Some(extractTitleFromUrl(u)),
                     IF Truthy(vid) THEN Some(ThumbnailOf(Get(vid))) ELSE Some(Placeholder),
                     TRUE, None, "primary")
    ELSE ApiResponse(Some(Untitled), Some(Placeholder), FALSE, fault, "fallback")

\* faulty variant of fetchWithFallback: without a video id the synthesized
\* result reports success = false
fetchWithFallbackUnsuccessful(u, vid, fault) ==
    IF fault = None
    THEN ApiResponse(Some(extractTitleFromUrl(u)),
                     IF Truthy(vid) THEN Some(ThumbnailOf(Get(vid))) ELSE Some(Placeholder),
                     Truthy(vid), None, "fallback")
    ELSE ApiResponse(Some(Untitled), Some(Placeholder), FALSE, fault, "fallback")

\* faulty variant of fetchWithFallback: the thumbnail is always the sentinel
fetchWithFallbackNoThumbnail(u, vid, fault) ==
    IF fault = None
    THEN ApiResponse(Some(extractTitleFromUrl(u)), Some(Placeholder), TRUE, None, "fallback")
    ELSE ApiResponse(Some(Untitled), Some(Placeholder), FALSE, fault, "fallback")

\* fetchWithFallback(url, videoId); fault is the message of an error raised
\* inside its try block, None when nothing is raised
fetchWithFallback(u, vid, fault) ==
    IF fault = None
    THEN ApiResponse(Some(extractTitleFromUrl(u)),
                     IF Truthy(vid) THEN Some(ThumbnailOf(Get(vid))) ELSE Some(Placeholder),
                     TRUE, None, "fallback")
    ELSE ApiResponse(Some(Untitled), Some(Placeholder), FALSE, fault, "fallback")

\* faulty variant of choosePath: a playlist id alone selects the playlist path
choosePathPlaylistFirst(vid, pid) ==
    IF Truthy(pid) THEN PlaylistApi ELSE NoEmbed

\* faulty variant of choosePath: without a video id the playlist path is taken
choosePathPlaylistDefault(vid, pid) ==
    IF Truthy(vid) THEN NoEmbed ELSE PlaylistApi

\* the branch of fetchVideoData: `if (playlistId && !videoId)`
choosePath(vid, pid) ==
    IF Truthy(pid) /\ ~Truthy(vid) THEN PlaylistApi ELSE NoEmbed

-----------------------------------------------------------------------------
(* useErrorHandler *)

\* String.prototype.includes: sub occurs in s, case-sensitively
Includes(s, sub) ==
    \E i \in 1..(Len(s) - Len(sub) + 1) : SubSeq(s, i, i + Len(sub) - 1) = sub

ErrorState(hasError, message, type) ==
    [hasError |-> hasError, message |-> message, type |-> type]

\* setError(message, type): the error state it sets
setError(message, type) == ErrorState(TRUE, message, type)

\* clearError(): the error state it sets, which is also the initial one
clearError == ErrorState(FALSE, <<>>, "unknown")

\* faulty variant of handleAsyncErrorCatch: a custom message of the caller
\* replaces the message of every category
handleAsyncErrorCatchCustomFirst(message, errorMessage) ==
    LET type == IF Includes(message, KwNetwork) \/ Includes(message, KwFetch)
                THEN "network"
                ELSE IF Includes(message, KwValidation) \/ Includes(message, KwInvalid)
                THEN "validation"
                ELSE IF Includes(message, KwApi) \/ Includes(message, KwResponse)
                THEN "api"
                ELSE "unknown"
        text == CASE type = "network" -> NetworkMessage
                  [] type = "validation" -> message
                  [] type = "api" -> ServiceMessage
                  [] OTHER -> UnexpectedMessage
    IN setError(IF Truthy(errorMessage) THEN Get(errorMessage) ELSE text, type)

\* the catch block of handleAsyncError: the error state it sets for an error
\* with this message, errorMessage being the optional argument of the caller
handleAsyncErrorCatch(message, errorMessage) ==
    IF Includes(message, KwNetwork) \/ Includes(message, KwFetch)
    THEN setError(NetworkMessage, "network")
    ELSE IF Includes(message, KwValidation) \/ Includes(message, KwInvalid)
    THEN setError(message, "validation")
    ELSE IF Includes(message, KwApi) \/ Includes(message, KwResponse)
    THEN setError(ServiceMessage, "api")
    ELSE IF Truthy(errorMessage)
    THEN setError(Get(errorMessage), "unknown")
    ELSE setError(UnexpectedMessage, "unknown")

\* messages of the errors the awaited function rejects with
ErrorMessages ==
    {ErrNetworkOccurred, ErrFetchFailed, ErrInvalidInput, ErrApiResponse, ErrUnknown,
     ErrApi, ErrInvalidNetwork, ErrInvalidApiKey, ErrLowerCase, ErrBadResponse,
     FetchDataMessage, InternalError}

\* the errorMessage argument: left out, empty, or one of two texts
CustomMessages == {None, Some(<<>>), Some(CustomMessage), Some(FetchFailedMessage)}

-----------------------------------------------------------------------------
(* State *)

VARIABLES
    retryConfig,    \* ApiService.retryConfig, shared by every call
    frames,         \* per call of fetchVideoData: its locals and where it is suspended
    health,         \* the call of checkApiHealth: its two probes and its report
    hook,           \* useErrorHandler: its error state and its call of handleAsyncError
    popup           \* the state of the App component and its saves in flight

vars == <<retryConfig, frames, health, hook, popup>>

\* the calls of fetchVideoData on the shared apiService instance
Calls == {"c1", "c2"}

\* messages of an error raised inside the try block of fetchWithFallback
Faults == {None, Some(InternalError)}

NoError == [kind |-> "none", attempt |-> 0]

\* a call that has not been made yet
IdleFrame ==
    [pc |-> "idle", url |-> <<>>, videoId |-> None, playlistId |-> None,
     path |-> "none", retryCount |-> 0, invocations |-> 0, requests |-> <<>>,
     request |-> "none", outstanding |-> 0,
     timer |-> 0, fired |-> FALSE, signal |-> FALSE, lateAbort |-> FALSE,
     delivered |-> 0,
     delays |-> <<>>, status |-> 0, data |-> None, failures |-> 0,
     failedStatus |-> 0, failedOn |-> None,
     lastError |-> NoError, caught |-> NoError, fault |-> None,
     settled |-> "pending", result |-> NoResult]

\* a call that is not made in this behaviour
OffFrame == [IdleFrame EXCEPT !.pc = "off"]

\* the timeout checkApiHealth passes to fetchWithTimeout
ProbeTimeout == 5000

\* the endpoints checkApiHealth probes, in the order of its array
ProbeEndpoints == <<NoEmbed, PlaylistApi>>

\* a call of fetchWithTimeout by checkApiHealth, before it is made
IdleProbe ==
    [requests |-> <<>>, request |-> "none", outstanding |-> 0,
     timer |-> 0, fired |-> FALSE, signal |-> FALSE, lateAbort |-> FALSE,
     delivered |-> 0, status |-> 0, settled |-> "pending"]

\* the object checkApiHealth returns
HealthReport(a, b) == [noembed |-> a, youtubemultidownloader |-> b]

\* checkApiHealth before it is called; order lists the probes as they settle
IdleHealth ==
    [pc |-> "idle", probes |-> <<IdleProbe, IdleProbe>>, order |-> <<>>,
     settled |-> "pending", result |-> HealthReport(FALSE, FALSE)]

\* the hook after its first render, no call of handleAsyncError made; thrown
\* is the message the awaited function rejected with, returned what the call
\* returned ("value" for the value of the awaited function)
IdleHook ==
    [error |-> clearError, pc |-> "idle", errorMessage |-> None,
     thrown |-> None, returned |-> "none"]

\* the toast of the App: text names the message, tag and count are the
\* values its template inserts
Notification(type, text, tag, count) ==
    [show |-> TRUE, type |-> type, text |-> text, tag |-> tag, count |-> count]

\* the App after its first render with an empty stored list. saves are the
\* calls of handleSaveItem suspended in `await handleAsyncError(...)`, oldest
\* first; timers the pending timers of its setTimeout; now the latest value
\* read from Date.now(); submissions counts the calls of handleSaveItem;
\* exported is the format of the latest export and the number of items
\* handed to the exporter.
IdlePopup ==
    [items |-> <<>>, selectedItems |-> <<>>, selectedTag |-> "all",
     saveState |-> "idle", saves |-> <<>>, timers |-> <<>>, now |-> 0,
     notification |-> [show |-> FALSE, type |-> "info", text |-> "none",
                       tag |-> "", count |-> 0],
     submissions |-> 0, exported |-> [format |-> "none", count |-> 0]]

-----------------------------------------------------------------------------
(* Steps of one call, as functions of its frame *)

\* fetchWithTimeout up to `await fetch(...)`: a new controller, the timer is
\* armed, the request issued; f is the frame or the probe that makes the call
fetchWithTimeoutIssue(f, endpoint, timeout) ==
    [f EXCEPT !.requests = Append(@, endpoint), !.request = "pending",
              !.outstanding = @ + 1,
              !.timer = timeout, !.fired = FALSE, !.signal = FALSE,
              !.delivered = 0]

\* faulty variant of fetchWithTimeoutSettle: clearTimeout is missing from the
\* catch block
fetchWithTimeoutSettleLeaky(f, state) ==
    [f EXCEPT !.request = state, !.outstanding = @ - 1,
              !.timer = IF state = "responded" THEN 0 ELSE @]

\* faulty variant of fetchWithTimeoutSettle: the timeout only rejects the call
\* (a race against a timer), the request itself is not cancelled
fetchWithTimeoutSettleRace(f, state) ==
    [f EXCEPT !.request = state, !.timer = 0,
              !.outstanding = IF state = "aborted" THEN @ ELSE @ - 1]

\* fetchWithTimeout after `await fetch(...)`: the request is over, answered,
\* failed or cancelled through its signal; clearTimeout on both paths
fetchWithTimeoutSettle(f, state) ==
    [f EXCEPT !.request = state, !.outstanding = @ - 1, !.timer = 0]

\* faulty variant of fetchWithTimeoutResponse: a response that is not OK is
\* raised as an error
fetchWithTimeoutResponseChecked(status) ==
    IF ResponseOk(status)
    THEN [ok |-> TRUE, status |-> status, error |-> "none"]
    ELSE [ok |-> FALSE, status |-> 0, error |-> "HTTPError"]

\* `return response` of fetchWithTimeout: what its caller gets when the
\* transport delivered a response with this status
fetchWithTimeoutResponse(status) ==
    [ok |-> TRUE, status |-> status, error |-> "none"]

\* faulty variant of controllerAbort: the timer's callback does not abort
controllerAbortIgnored(f) ==
    [f EXCEPT !.timer = 0, !.fired = TRUE]

\* the callback of setTimeout: `controller.abort()`
controllerAbort(f) ==
    [f EXCEPT !.timer = 0, !.fired = TRUE, !.signal = TRUE,
              !.lateAbort = (f.request # "pending")]

\* faulty variant of primaryFailed: fetchVideoData without its catch block,
\* the failure of the primary path rejects the call
primaryFailedUncaught(f, err) ==
    [f EXCEPT !.pc = "done", !.settled = "rejected", !.caught = err]

\* faulty variant of primaryFailed: the catch block waits for a promise that
\* never settles
primaryFailedHangs(f, err) == [f EXCEPT !.pc = "hung", !.caught = err]

\* the catch block of fetchVideoData: the fallback is entered
primaryFailed(f, err) == [f EXCEPT !.pc = "fallback", !.caught = err]

\* faulty variant of operationThrew: only network failures and timeouts are
\* retried, any other failure is rethrown at once
operationThrewClassified(cfg, f, kind) ==
    LET err == [kind |-> kind, attempt |-> f.invocations]
        g == [f EXCEPT !.failures = @ + 1, !.lastError = err,
                       !.failedStatus = f.status, !.failedOn = f.data,
                       !.status = 0, !.data = None]
    IN IF retriesExhausted(cfg, f.retryCount) \/ kind \notin {"NetworkError", "AbortError"}
       THEN primaryFailed(g, err)
       ELSE [g EXCEPT !.pc = "delaying",
                      !.delays = Append(@, backoffDelay(cfg, f.retryCount))]

\* faulty variant of operationThrew: the delay is awaited before the guard is
\* tested, so a delay also precedes the rethrow of the last failure
operationThrewDelayedRethrow(cfg, f, kind) ==
    LET err == [kind |-> kind, attempt |-> f.invocations]
        g == [f EXCEPT !.failures = @ + 1, !.lastError = err,
                       !.failedStatus = f.status, !.failedOn = f.data,
                       !.status = 0, !.data = None,
                       !.delays = Append(@, backoffDelay(cfg, f.retryCount))]
    IN IF retriesExhausted(cfg, f.retryCount)
       THEN primaryFailed(g, err)
       ELSE [g EXCEPT !.pc = "delaying"]

\* the catch block of retryWithBackoff
operationThrew(cfg, f, kind) ==
    LET err == [kind |-> kind, attempt |-> f.invocations]
        g == [f EXCEPT !.failures = @ + 1, !.lastError = err,
                       !.failedStatus = f.status, !.failedOn = f.data,
                       !.status = 0, !.data = None]
    IN IF retriesExhausted(cfg, f.retryCount)
       THEN primaryFailed(g, err)
       ELSE [g EXCEPT !.pc = "delaying",
                      !.delays = Append(@, backoffDelay(cfg, f.retryCount))]

\* retryWithBackoff(operation, k) up to the first await: the operation builds
\* the endpoint's address with encodeURIComponent(url) and calls fetchWithTimeout
invokeOperation(cfg, f, k) ==
    LET g == [f EXCEPT !.retryCount = k, !.invocations = @ + 1,
                       !.status = 0, !.data = None,
                       !.failedStatus = 0, !.failedOn = None]
    IN IF Encodable(g.url)
       THEN [fetchWithTimeoutIssue(g, g.path, DefaultTimeout) EXCEPT !.pc = "fetching"]
       ELSE operationThrew(cfg, g, "URIError")

\* fetchVideoData up to its first await
fetchVideoDataCall(cfg, f, u) ==
    LET vid == getYouTubeID(u)
        pid == getYouTubePlaylistID(u)
    IN invokeOperation(cfg, [f EXCEPT !.url = u, !.videoId = vid, !.playlistId = pid,
                                      !.path = choosePath(vid, pid)], 0)

\* faulty variant of operationReturned: the value of the operation is not
\* passed on (a missing return)
operationReturnedNothing(f, v) ==
    [f EXCEPT !.pc = "done", !.settled = "fulfilled"]

\* the operation returned: retryWithBackoff, the fetch...Data method and
\* fetchVideoData return its value
operationReturned(f, v) ==
    [f EXCEPT !.pc = "done", !.settled = "fulfilled", !.result = v]

\* the rest of the operation once the body is decoded
operationOn(f, body) ==
    IF f.path = PlaylistApi THEN playlistOperation(body) ELSE noEmbedOperation(body, f.url)

\* `return await this.fetchWithFallback(url, videoId)`
fallbackReturned(f, fault) ==
    [f EXCEPT !.pc = "done", !.settled = "fulfilled", !.fault = fault,
              !.result = fetchWithFallback(f.url, f.videoId, fault)]

\* faulty variant of healthReport: Promise.all, one rejection fails the whole
healthReportAll(results) ==
    LET all == \A i \in 1..Len(results) : results[i].settled = "fulfilled"
    IN HealthReport(all, all)

\* faulty variant of healthReport: a provider is healthy only when its probe
\* was answered with an OK status
healthReportOkOnly(results) ==
    HealthReport(results[1].settled = "fulfilled" /\ ResponseOk(results[1].status),
                 results[2].settled = "fulfilled" /\ ResponseOk(results[2].status))

\* the object checkApiHealth builds from the results of Promise.allSettled
healthReport(results) ==
    HealthReport(results[1].settled = "fulfilled", results[2].settled = "fulfilled")

\* faulty variant of probeSettled: Promise.all, the first rejected probe
\* rejects checkApiHealth at once
probeSettledAll(h, i, p) ==
    LET results == [h.probes EXCEPT ![i] = p]
        allFulfilled == \A j \in 1..Len(results) : results[j].settled = "fulfilled"
        g == [h EXCEPT !.probes = results, !.order = Append(@, i)]
    IN IF h.pc = "done" THEN g
       ELSE IF p.settled = "rejected"
       THEN [g EXCEPT !.pc = "done", !.settled = "rejected"]
       ELSE IF allFulfilled
       THEN [g EXCEPT !.pc = "done", !.settled = "fulfilled",
                      !.result = healthReport(results)]
       ELSE g

\* probe i of checkApiHealth settled as p; Promise.allSettled fulfils once
\* both have, and checkApiHealth returns
probeSettled(h, i, p) ==
    LET results == [h.probes EXCEPT ![i] = p]
        allSettled == \A j \in 1..Len(results) : results[j].settled # "pending"
    IN [h EXCEPT !.probes = results, !.order = Append(@, i),
                 !.pc = IF allSettled THEN "done" ELSE @,
                 !.settled = IF allSettled THEN "fulfilled" ELSE @,
                 !.result = IF allSettled THEN healthReport(results) ELSE @]

-----------------------------------------------------------------------------
(* The popup: App and AddVideoForm *)

\* the positions at which one of the prefixes followed by ([^#&?]+) matches
GroupStarts(s, prefixes) ==
    {i \in 1..Len(s) :
        \E a \in 1..Len(prefixes) :
            /\ MatchesAt(s, i, prefixes[a])
            /\ Len(RunFrom(s, i + Len(prefixes[a]), IdStop)) >= 1}

\* s.match(/(?:p1|p2|...)([^#&?]+)/)[1] for literal prefixes, None when the
\* expression does not match: the leftmost match, the first alternative
FirstGroup(s, prefixes) ==
    IF GroupStarts(s, prefixes) = {}
    THEN None
    ELSE LET starts == GroupStarts(s, prefixes)
             i == CHOOSE x \in starts : \A y \in starts : x <= y
             fits(a) == /\ MatchesAt(s, i, prefixes[a])
                        /\ Len(RunFrom(s, i + Len(prefixes[a]), IdStop)) >= 1
             a == CHOOSE x \in 1..Len(prefixes) :
                      fits(x) /\ \A y \in 1..(x - 1) : ~fits(y)
         IN Some(RunFrom(s, i + Len(prefixes[a]), IdStop))

\* url.match(/(?:youtu\.be\/)([^#&?]+)/)
youtuBeMatch(u) == FirstGroup(u, <<YoutuBe>>)

\* url.match(/(?:youtube\.com\/watch\?v=|youtube\.com\/embed\/|youtube\.com\/v\/)([^#&?]+)/)
youtubeMatch(u) == FirstGroup(u, <<YoutubeWatch, YoutubeEmbed, YoutubeV>>)

\* getYouTubeID of App.tsx, computed from its three regular expressions
matchVideoIdInApp(u) ==
    IF (IF IsSome(youtuBeMatch(u)) THEN Len(Get(youtuBeMatch(u))) = IdLength ELSE FALSE)
    THEN youtuBeMatch(u)
    ELSE IF (IF IsSome(youtubeMatch(u)) THEN Len(Get(youtubeMatch(u))) = IdLength
                                         ELSE FALSE)
    THEN youtubeMatch(u)
    ELSE matchVideoId(u)

\* the strings handleSaveItem is called with: none, one without an id, a
\* video URL and a playlist URL
SaveUrls == {<<>>, UrlInvalid, UrlWatch, UrlPlaylist}

\* the extractors of App.tsx on these strings, each evaluated once
VideoIdsInApp == [u \in SaveUrls |-> matchVideoIdInApp(u)]

PlaylistIdsInApp == [u \in SaveUrls |-> matchPlaylistId(u)]

\* getYouTubeID of App.tsx
getYouTubeIDInApp(u) == VideoIdsInApp[u]

\* getYouTubePlaylistID of App.tsx
getYouTubePlaylistIDInApp(u) == PlaylistIdsInApp[u]

\* newUrl and newTag of the App: nothing sets them to anything but ''
NewUrl == <<>>

NewTag == ""

\* the delay of the timer that resets saveState after a save, in ms
SaveResetDelay == 2000

\* the largest number of calls of handleSaveItem in a behaviour
MaxSubmissions == 3

\* the checks of handleSaveItem before it sets saveState: the message of the
\* validation error, None when the URL passes
validationError(url) ==
    LET videoUrl == Get(JsOr(Some(url), Some(NewUrl)))
    IN IF videoUrl = <<>>
       THEN Some(EnterUrlMessage)
       ELSE IF ~Truthy(getYouTubeIDInApp(videoUrl))
                 /\ ~Truthy(getYouTubePlaylistIDInApp(videoUrl))
       THEN Some(InvalidUrlMessage)
       ELSE None

\* the error state after the synchronous part of handleSaveItem: clearError()
\* and, for a URL that does not pass, setError(..., 'validation')
handleSaveItemError(url) ==
    IF IsSome(validationError(url))
    THEN setError(Get(validationError(url)), "validation")
    ELSE clearError

\* faulty variant of handleSaveItemCall: setSaveState('loading') comes before
\* the checks of the URL
handleSaveItemCallLoadingFirst(p, url, tag) ==
    LET videoUrl == Get(JsOr(Some(url), Some(NewUrl)))
        videoTag == IF tag # "" THEN tag ELSE NewTag
        q == [p EXCEPT !.submissions = @ + 1, !.saveState = "loading"]
    IN IF IsSome(validationError(url))
       THEN q
       ELSE [q EXCEPT !.saves = Append(@, [url |-> videoUrl, tag |-> videoTag])]

\* handleSaveItem(url, tag) up to its await: for a URL that passes the checks
\* saveState is set and apiService.fetchVideoData(videoUrl) is called
handleSaveItemCall(p, url, tag) ==
    LET videoUrl == Get(JsOr(Some(url), Some(NewUrl)))
        videoTag == IF tag # "" THEN tag ELSE NewTag
        q == [p EXCEPT !.submissions = @ + 1]
    IN IF IsSome(validationError(url))
       THEN q
       ELSE [q EXCEPT !.saveState = "loading",
                      !.saves = Append(@, [url |-> videoUrl, tag |-> videoTag])]

\* what a call of apiService.fetchVideoData(u) can resolve with: the value of
\* its operation on a body the operation accepts, or that of
\* fetchWithFallback
fetchVideoDataResults(u) ==
    LET vid == getYouTubeID(u)
        pid == getYouTubePlaylistID(u)
        f == [IdleFrame EXCEPT !.url = u, !.videoId = vid, !.playlistId = pid,
                               !.path = choosePath(vid, pid)]
    IN {operationOn(f, body).value :
            body \in {b \in Bodies : Encodable(u) /\ operationOn(f, b).ok}}
           \cup {fetchWithFallback(u, vid, fault) : fault \in Faults}

\* the results of fetchVideoData for the URLs that pass the checks, each set
\* evaluated once
Responses ==
    [u \in {v \in SaveUrls : validationError(v) = None} |->
        fetchVideoDataResults(u)]

\* messages of the errors a fetchVideoData that rejects, as the one of the
\* App's tests does, rejects with
RejectionMessages == {ErrApi, ErrFetchFailed, ErrUnknown}

\* faulty variant of saveOperation: a result of the fallback is not accepted
saveOperationPrimaryOnly(response) ==
    IF ~response.success \/ response.source # "primary"
    THEN [ok |-> FALSE, data |-> None,
          message |-> Get(JsOr(response.error, Some(FetchDataMessage)))]
    ELSE [ok |-> TRUE, data |-> Some(response.data), message |-> <<>>]

\* the function handleSaveItem hands to handleAsyncError, from the point where
\* fetchVideoData resolved: it returns response.data or throws an error with
\* this message
saveOperation(response) ==
    IF ~response.success
    THEN [ok |-> FALSE, data |-> None,
          message |-> Get(JsOr(response.error, Some(FetchDataMessage)))]
    ELSE [ok |-> TRUE, data |-> Some(response.data), message |-> <<>>]

\* the fields of a SavedItem the popup reads after the save
SavedItem(id, url, title, thumbnail, type, tags) ==
    [id |-> id, url |-> url, title |-> title, thumbnail |-> thumbnail,
     type |-> type, tags |-> tags]

\* s without its i-th element
RemoveAt(s, i) == SubSeq(s, 1, i - 1) \o SubSeq(s, i + 1, Len(s))

\* the values Date.now() can return after it returned now
Clock(now) == {n \in {now, now + 1} : n > 0}

\* handleSaveItem after its await: result is what handleAsyncError returned,
\* the data of the response or null, now the value of Date.now()
handleSaveItemResume(p, i, result, now) ==
    LET save == p.saves[i]
        q == [p EXCEPT !.saves = RemoveAt(@, i)]
    IN IF IsSome(result)
       THEN [q EXCEPT
                !.items = <<SavedItem(now, save.url, Get(result).title,
                                      Get(result).thumbnailUrl,
                                      IF Truthy(getYouTubePlaylistIDInApp(save.url))
                                      THEN "playlist" ELSE "video",
                                      IF save.tag # "" THEN <<save.tag>> ELSE <<>>)>> \o @,
                !.now = now,
                !.saveState = "success",
                !.notification = Notification("success", "saved", save.tag, 0),
                !.timers = Append(@, SaveResetDelay)]
       ELSE [q EXCEPT !.saveState = "idle"]

\* the items shown under a tag: `selectedTag === 'all' ? items :
\* items.filter(item => item.tags.includes(selectedTag))`
FilteredItems(items, tag) ==
    IF tag = "all" THEN items
    ELSE SelectSeq(items, LAMBDA item : tag \in Range(item.tags))

\* items.map(item => item.id)
ItemIds(items) == [k \in 1..Len(items) |-> items[k].id]

\* handleSelectionChange(id, selected)
handleSelectionChange(p, id, selected) ==
    IF selected
    THEN [p EXCEPT !.selectedItems = Append(@, id)]
    ELSE [p EXCEPT !.selectedItems = SelectSeq(@, LAMBDA itemId : itemId # id)]

\* handleSelectAll()
handleSelectAll(p) ==
    LET filteredItems == FilteredItems(p.items, p.selectedTag)
    IN IF Len(p.selectedItems) = Len(filteredItems) /\ Len(filteredItems) > 0
       THEN [p EXCEPT !.selectedItems = <<>>]
       ELSE [p EXCEPT !.selectedItems = ItemIds(filteredItems)]

\* handleDeselectAll()
handleDeselectAll(p) == [p EXCEPT !.selectedItems = <<>>]

\* switchToTag(tag)
switchToTag(p, tag) == [p EXCEPT !.selectedTag = tag]

\* handleDeleteItem(id)
handleDeleteItem(p, id) ==
    [p EXCEPT !.items = SelectSeq(@, LAMBDA item : item.id # id),
              !.notification = Notification("info", "removed", "", 0)]

\* handleExportText() and handleExportJSON(): the number of items handed to
\* the exporter and the count the notification reports
handleExport(p, format) ==
    LET selectedItemsData ==
            SelectSeq(p.items, LAMBDA item : item.id \in Range(p.selectedItems))
    IN IF Len(p.selectedItems) = 0
       THEN [p EXCEPT !.notification = Notification("warning", "select", "", 0)]
       ELSE [p EXCEPT
                !.exported = [format |-> format, count |-> Len(selectedItemsData)],
                !.notification = Notification("success", "exported", "",
                                              Len(p.selectedItems))]

-----------------------------------------------------------------------------
(* Actions *)

\* a caller calls apiService.fetchVideoData(u) with one of the inputs
FetchVideoDataOf(c, inputs) ==
    \E u \in inputs :
        /\ frames[c].pc = "idle"
        /\ frames' = [frames EXCEPT ![c] = fetchVideoDataCall(retryConfig, @, u)]
        /\ UNCHANGED <<retryConfig, health, hook, popup>>

\* a caller calls apiService.fetchVideoData(u)
FetchVideoData(c) == FetchVideoDataOf(c, Urls)

\* the request fails at the network level: fetch rejects
FetchRejects(c) ==
    /\ frames[c].pc = "fetching"
    /\ frames' = [frames EXCEPT ![c] =
           operationThrew(retryConfig, fetchWithTimeoutSettle(@, "failed"), "NetworkError")]
    /\ UNCHANGED <<retryConfig, health, hook, popup>>

\* the timer of fetchWithTimeout fires: controller.abort(), fetch rejects
TimerFires(c) ==
    /\ frames[c].timer # 0
    /\ LET g == controllerAbort(frames[c])
       IN frames' = [frames EXCEPT ![c] =
              IF g.signal /\ g.request = "pending"
              THEN operationThrew(retryConfig, fetchWithTimeoutSettle(g, "aborted"),
                                  "AbortError")
              ELSE g]
    /\ UNCHANGED <<retryConfig, health, hook, popup>>

\* the endpoint answers: fetchWithTimeout returns the response, the operation
\* checks response.ok and awaits response.json()
FetchResolves(c) ==
    \E status \in Statuses :
        /\ frames[c].pc = "fetching"
        /\ LET response == fetchWithTimeoutResponse(status)
               g == [fetchWithTimeoutSettle(frames[c], "responded")
                         EXCEPT !.delivered = status, !.status = response.status]
           IN frames' = [frames EXCEPT ![c] =
                  IF ~response.ok THEN operationThrew(retryConfig, g, response.error)
                  ELSE IF ResponseOk(response.status) THEN [g EXCEPT !.pc = "decoding"]
                  ELSE operationThrew(retryConfig, g, "not ok")]
        /\ UNCHANGED <<retryConfig, health, hook, popup>>

\* response.json() settles and the operation runs to its end
JsonSettles(c) ==
    \E body \in Bodies :
        /\ frames[c].pc = "decoding"
        /\ LET g == [frames[c] EXCEPT !.data = Some(body)]
               r == operationOn(g, body)
           IN frames' = [frames EXCEPT ![c] =
                  IF r.ok THEN operationReturned(g, r.value)
                          ELSE operationThrew(retryConfig, g, r.error)]
        /\ UNCHANGED <<retryConfig, health, hook, popup>>

\* faulty variant of DelayElapses: the retry count is a field of the shared
\* instance, the next attempt counts on from the highest count of any call
DelayElapsesShared(c) ==
    /\ frames[c].pc = "delaying"
    /\ LET k == CHOOSE n \in {frames[d].retryCount : d \in Calls} :
                    \A d \in Calls : frames[d].retryCount <= n
       IN frames' = [frames EXCEPT ![c] = invokeOperation(retryConfig, @, k + 1)]
    /\ UNCHANGED <<retryConfig, health, hook, popup>>

\* the backoff delay elapses: retryWithBackoff(operation, retryCount + 1)
DelayElapses(c) ==
    /\ frames[c].pc = "delaying"
    /\ frames' = [frames EXCEPT ![c] = invokeOperation(retryConfig, @, @.retryCount + 1)]
    /\ UNCHANGED <<retryConfig, health, hook, popup>>

\* fetchWithFallback runs and fetchVideoData returns its result
FallbackReturns(c) ==
    \E fault \in Faults :
        /\ frames[c].pc = "fallback"
        /\ frames' = [frames EXCEPT ![c] = fallbackReturned(@, fault)]
        /\ UNCHANGED <<retryConfig, health, hook, popup>>

\* faulty variant of CheckApiHealth: the probes are kept from being retried by
\* switching the retries of the shared policy off
CheckApiHealthNoRetries ==
    /\ health.pc = "idle"
    /\ health' = [health EXCEPT
           !.pc = "probing",
           !.probes = [i \in 1..2 |->
                          fetchWithTimeoutIssue(IdleProbe, ProbeEndpoints[i], ProbeTimeout)]]
    /\ retryConfig' = [retryConfig EXCEPT !.maxRetries = 0]
    /\ UNCHANGED <<frames, hook, popup>>

\* a caller calls apiService.checkApiHealth(): both probes are issued
CheckApiHealth ==
    /\ health.pc = "idle"
    /\ health' = [health EXCEPT
           !.pc = "probing",
           !.probes = [i \in 1..2 |->
                          fetchWithTimeoutIssue(IdleProbe, ProbeEndpoints[i], ProbeTimeout)]]
    /\ UNCHANGED <<retryConfig, frames, hook, popup>>

\* the endpoint of probe i answers: fetchWithTimeout returns the response
ProbeResolves(i) ==
    \E status \in Statuses :
        /\ health.probes[i].request = "pending"
        /\ LET response == fetchWithTimeoutResponse(status)
               p == [fetchWithTimeoutSettle(health.probes[i], "responded")
                         EXCEPT !.delivered = status, !.status = response.status,
                                !.settled = IF response.ok THEN "fulfilled"
                                                           ELSE "rejected"]
           IN health' = probeSettled(health, i, p)
        /\ UNCHANGED <<retryConfig, frames, hook, popup>>

\* the request of probe i fails at the network level
ProbeRejects(i) ==
    /\ health.probes[i].request = "pending"
    /\ health' = probeSettled(health, i,
           [fetchWithTimeoutSettle(health.probes[i], "failed") EXCEPT !.settled = "rejected"])
    /\ UNCHANGED <<retryConfig, frames, hook, popup>>

\* the timer of probe i fires: controller.abort(), fetch rejects
ProbeTimerFires(i) ==
    /\ health.probes[i].timer # 0
    /\ LET g == controllerAbort(health.probes[i])
       IN health' =
              IF g.signal /\ g.request = "pending"
              THEN probeSettled(health, i,
                       [fetchWithTimeoutSettle(g, "aborted") EXCEPT !.settled = "rejected"])
              ELSE [health EXCEPT !.probes[i] = g]
    /\ UNCHANGED <<retryConfig, frames, hook, popup>>

\* a caller calls handleAsyncError(asyncFn, errorMessage)
HandleAsyncError ==
    \E errorMessage \in CustomMessages :
        /\ hook.pc # "awaiting"
        /\ hook' = [hook EXCEPT !.pc = "awaiting", !.errorMessage = errorMessage,
                                !.thrown = None, !.returned = "none"]
        /\ UNCHANGED <<retryConfig, frames, health, popup>>

\* the awaited function resolves: handleAsyncError returns its value
AsyncFnResolves ==
    /\ hook.pc = "awaiting"
    /\ hook' = [hook EXCEPT !.pc = "returned", !.returned = "value"]
    /\ UNCHANGED <<retryConfig, frames, health, popup>>

\* the awaited function rejects: the catch block sets the error state and
\* handleAsyncError returns null
AsyncFnRejects ==
    \E message \in ErrorMessages :
        /\ hook.pc = "awaiting"
        /\ hook' = [hook EXCEPT !.pc = "returned", !.returned = "null",
                                !.thrown = Some(message),
                                !.error = handleAsyncErrorCatch(message, hook.errorMessage)]
        /\ UNCHANGED <<retryConfig, frames, health, popup>>

\* a caller calls clearError()
ClearError ==
    /\ hook.error.hasError
    /\ hook' = [hook EXCEPT !.error = clearError]
    /\ UNCHANGED <<retryConfig, frames, health, popup>>

\* the add form calls handleSaveItem(url, tag); the form cannot be submitted
\* while isLoading
HandleSaveItemStep(url, tag) ==
    /\ popup.saveState # "loading"
    /\ popup' = handleSaveItemCall(popup, url, tag)
    /\ hook' = [hook EXCEPT !.error = handleSaveItemError(url)]
    /\ UNCHANGED <<retryConfig, frames, health>>

\* at most limit calls of handleSaveItem, with one of these inputs
HandleSaveItemOf(urls, tags, limit) ==
    \E url \in urls, tag \in tags :
        /\ popup.submissions < limit
        /\ HandleSaveItemStep(url, tag)

\* the tags the add form passes: its handleSubmit calls onSave only with
\* a tag that is not blank
SaveTags == {"music"}

HandleSaveItem == HandleSaveItemOf(SaveUrls, SaveTags, MaxSubmissions)

\* the call of fetchVideoData of the i-th save in flight resolves with
\* response, and handleAsyncError and handleSaveItem run to their ends
SaveResolvesStep(i, response, now) ==
    LET outcome == saveOperation(response)
    IN /\ popup' = handleSaveItemResume(popup, i, outcome.data, now)
       /\ hook' = IF outcome.ok THEN hook
                  ELSE [hook EXCEPT !.error =
                           handleAsyncErrorCatch(outcome.message,
                                                 Some(FetchFailedMessage))]
       /\ UNCHANGED <<retryConfig, frames, health>>

\* a save in flight resolves with one of the responses of its URL
SaveResolvesFrom(responses) ==
    \E i \in 1..Len(popup.saves) :
        \E response \in responses[popup.saves[i].url], now \in Clock(popup.now) :
            SaveResolvesStep(i, response, now)

SaveResolves == SaveResolvesFrom(Responses)

\* the call of fetchVideoData of the i-th save in flight rejects with an
\* error with this message
SaveRejectsStep(i, message) ==
    /\ popup' = handleSaveItemResume(popup, i, None, popup.now)
    /\ hook' = [hook EXCEPT !.error =
                   handleAsyncErrorCatch(message, Some(FetchFailedMessage))]
    /\ UNCHANGED <<retryConfig, frames, health>>

SaveRejects ==
    \E i \in 1..Len(popup.saves) :
        \E message \in RejectionMessages : SaveRejectsStep(i, message)

\* the timer a save set fires: setSaveState('idle')
SaveTimerFires ==
    /\ popup.timers # <<>>
    /\ popup' = [popup EXCEPT !.timers = Tail(@), !.saveState = "idle"]
    /\ UNCHANGED <<retryConfig, frames, health, hook>>

\* the checkbox of a shown item is clicked
HandleSelectionChange ==
    \E k \in 1..Len(FilteredItems(popup.items, popup.selectedTag)) :
        LET id == FilteredItems(popup.items, popup.selectedTag)[k].id
        IN /\ popup' = handleSelectionChange(popup, id, id \notin Range(popup.selectedItems))
           /\ UNCHANGED <<retryConfig, frames, health, hook>>

\* the controls above the list are shown while the list is not empty
HandleSelectAll ==
    /\ popup.items # <<>>
    /\ popup' = handleSelectAll(popup)
    /\ UNCHANGED <<retryConfig, frames, health, hook>>

HandleDeselectAll ==
    /\ popup.items # <<>>
    /\ popup' = handleDeselectAll(popup)
    /\ UNCHANGED <<retryConfig, frames, health, hook>>

\* a button of the tag navigation is clicked: 'all' or a tag of an item
SwitchToTag ==
    \E tag \in {"all"} \cup UNION {Range(popup.items[k].tags) : k \in 1..Len(popup.items)} :
        /\ popup.items # <<>>
        /\ tag # popup.selectedTag
        /\ popup' = switchToTag(popup, tag)
        /\ UNCHANGED <<retryConfig, frames, health, hook>>

\* the delete button of a shown item is clicked
HandleDeleteItem ==
    \E k \in 1..Len(FilteredItems(popup.items, popup.selectedTag)) :
        /\ popup' = handleDeleteItem(popup, FilteredItems(popup.items, popup.selectedTag)[k].id)
        /\ UNCHANGED <<retryConfig, frames, health, hook>>

\* an export button is clicked
HandleExport ==
    \E format \in {"text", "json"} :
        /\ popup.items # <<>>
        /\ popup' = handleExport(popup, format)
        /\ UNCHANGED <<retryConfig, frames, health, hook>>

Next ==
    \E c \in Calls :
        \/ FetchVideoData(c)
        \/ FetchRejects(c)
        \/ TimerFires(c)
        \/ FetchResolves(c)
        \/ JsonSettles(c)
        \/ DelayElapses(c)
        \/ FallbackReturns(c)

\* the resolution path and the health check on the same instance
NextHealth ==
    \/ Next
    \/ CheckApiHealth
    \/ \E i \in 1..2 :
           \/ ProbeResolves(i)
           \/ ProbeRejects(i)
           \/ ProbeTimerFires(i)

\* one call, under the configured policy
Init ==
    /\ retryConfig = ConfiguredPolicy
    /\ frames = [c \in Calls |-> IF c = "c1" THEN IdleFrame ELSE OffFrame]
    /\ health = IdleHealth
    /\ hook = IdleHook
    /\ popup = IdlePopup

Spec == Init /\ [][Next]_vars

\* one call, under each policy of Policies
InitPolicy ==
    /\ retryConfig \in Policies
    /\ frames = [c \in Calls |-> IF c = "c1" THEN IdleFrame ELSE OffFrame]
    /\ health = IdleHealth
    /\ hook = IdleHook
    /\ popup = IdlePopup

SpecPolicy == InitPolicy /\ [][Next]_vars

\* every request that was issued is answered, fails or is aborted by its
\* timer, the body of every response is decoded or found undecodable, every
\* backoff delay elapses, and code that is ready to run does run
Fairness ==
    \A c \in Calls :
        /\ WF_vars(FetchRejects(c) \/ TimerFires(c) \/ FetchResolves(c))
        /\ WF_vars(JsonSettles(c))
        /\ WF_vars(DelayElapses(c))
        /\ WF_vars(FallbackReturns(c))

\* one call, under the configured policy, with requests and delays that end
SpecLive == Init /\ [][Next]_vars /\ Fairness

\* one call of fetchVideoData and the health check, under the configured policy
SpecHealth == Init /\ [][NextHealth]_vars

\* the URLs of the concurrent calls: one for the video path, one for the
\* playlist path
ConcurrentUrls == {UrlWatch, UrlPlaylist}

\* the steps of concurrent calls for these URLs
NextConcurrent ==
    \E c \in Calls :
        \/ FetchVideoDataOf(c, ConcurrentUrls)
        \/ FetchRejects(c)
        \/ TimerFires(c)
        \/ FetchResolves(c)
        \/ JsonSettles(c)
        \/ DelayElapses(c)
        \/ FallbackReturns(c)

\* the steps of a call for a string of ExtractorUrls
NextExtract ==
    \E c \in Calls :
        \/ FetchVideoDataOf(c, ExtractorUrls)
        \/ FetchRejects(c)
        \/ TimerFires(c)
        \/ FetchResolves(c)
        \/ JsonSettles(c)
        \/ DelayElapses(c)
        \/ FallbackReturns(c)

\* one call for a string of ExtractorUrls, under the configured policy
SpecExtract == Init /\ [][NextExtract]_vars

\* two concurrent calls, under the configured policy
InitConcurrent ==
    /\ retryConfig = ConfiguredPolicy
    /\ frames = [c \in Calls |-> IdleFrame]
    /\ health = IdleHealth
    /\ hook = IdleHook
    /\ popup = IdlePopup

SpecConcurrent == InitConcurrent /\ [][NextConcurrent]_vars

\* the hook on its own: calls of handleAsyncError and of clearError
NextHook ==
    \/ HandleAsyncError
    \/ AsyncFnResolves
    \/ AsyncFnRejects
    \/ ClearError

SpecHook == Init /\ [][NextHook]_vars

\* the saves of the popup
NextSave ==
    \/ HandleSaveItem
    \/ SaveResolves
    \/ SaveRejects
    \/ SaveTimerFires

SpecSave == Init /\ [][NextSave]_vars

\* the tags of the saved list
QueueTags == {"music", "talks"}

\* the largest number of saves of the saved list
MaxQueued == 2

\* the saves of the saved list resolve with the data of the primary API
QueueResponses ==
    [u \in {UrlWatch} |-> {r \in Responses[u] : r.success /\ r.source = "primary"
                                               /\ r.data.title = Some(TestVideo)}]

\* saves of one video under two tags, and the handlers of the saved list
NextQueue ==
    \/ HandleSaveItemOf({UrlWatch}, QueueTags, MaxQueued)
    \/ SaveResolvesFrom(QueueResponses)
    \/ SaveTimerFires
    \/ HandleSelectionChange
    \/ HandleSelectAll
    \/ HandleDeselectAll
    \/ SwitchToTag
    \/ HandleDeleteItem
    \/ HandleExport

SpecQueue == Init /\ [][NextQueue]_vars

-----------------------------------------------------------------------------
(* Properties *)

\* the calls that have been made
Made == {c \in Calls : frames[c].pc \notin {"off", "idle"}}

\* the calls that have settled
Settled == {c \in Calls : frames[c].pc = "done"}

\* C1: a call of fetchVideoData never settles by rejecting: whatever the
\* endpoint did, a settled call is fulfilled with a result object tagged
\* 'primary' or 'fallback'.
C1_NeverRejects ==
    \A c \in Calls :
        /\ frames[c].settled # "rejected"
        /\ frames[c].pc = "done" =>
               /\ frames[c].settled = "fulfilled"
               /\ frames[c].result.source \in {"primary", "fallback"}
               /\ IsSome(frames[c].result.data.title)
        /\ frames[c].pc # "done" => frames[c].settled = "pending"

\* C1 witness: every attempt ended in a timeout abort and the call returned
C1_Witness ==
    \E c \in Calls :
        /\ frames[c].pc = "done"
        /\ frames[c].settled = "fulfilled"
        /\ frames[c].failures = CfgMaxRetries + 1
        /\ frames[c].lastError.kind = "AbortError"

\* C2: the fallback is entered, and a result tagged 'fallback' returned, only
\* after maxRetries + 1 = 4 invocations of the selected lookup that all
\* failed; no kind of failure reaches the fallback earlier.
C2_FallbackOnlyAfterAllAttempts ==
    \A c \in Calls :
        (frames[c].pc = "fallback" \/ frames[c].result.source = "fallback") =>
            /\ frames[c].invocations = 4
            /\ frames[c].invocations = retryConfig.maxRetries + 1
            /\ frames[c].failures = frames[c].invocations
            /\ Len(frames[c].delays) = frames[c].invocations - 1

\* C2 witness: a fallback result after four attempts, the last of which failed
\* on a body that could not be decoded
C2_Witness ==
    \E c \in Calls :
        /\ frames[c].pc = "done"
        /\ frames[c].result.source = "fallback"
        /\ frames[c].lastError = [kind |-> "SyntaxError", attempt |-> 4]

\* C3: with maxRetries = n the operation is never invoked more than n + 1
\* times; its failure reaches the caller's catch block only after n + 1
\* failed invocations, and after n + 1 failed invocations it has reached it
\* (it is the failure of the last invocation, not swallowed).
C3_RetryExhaustion ==
    \A c \in Calls :
        LET f == frames[c]
            n == retryConfig.maxRetries
        IN /\ f.invocations <= n + 1
           /\ f.failures <= f.invocations
           /\ f.caught.kind # "none" =>
                  /\ f.failures = n + 1
                  /\ f.invocations = n + 1
           /\ f.failures = n + 1 =>
                  /\ f.pc \in {"fallback", "done"}
                  /\ f.caught.kind # "none"
                  /\ f.caught = f.lastError
                  /\ f.caught.attempt = n + 1

\* C3 witness: the largest policy, every invocation failed, the failure is in
\* the caller's catch block
C3_Witness ==
    \E c \in Calls :
        /\ retryConfig.maxRetries = PolicyMaxRetries
        /\ frames[c].pc = "fallback"
        /\ frames[c].failures = PolicyMaxRetries + 1
        /\ frames[c].caught.kind = "NetworkError"

\* C4: when an invocation succeeds after k failed ones (0 <= k <= maxRetries)
\* the call returns at once: the operation has been invoked exactly k + 1
\* times, no delay follows the success, and the value returned is the one
\* that invocation built from the body it decoded.
C4_ReturnsOnFirstSuccess ==
    \A c \in Calls :
        LET f == frames[c]
            succeeded == IsSome(f.data) /\ operationOn(f, Get(f.data)).ok
        IN /\ succeeded =>
                  /\ f.pc = "done"
                  /\ f.settled = "fulfilled"
                  /\ f.result = operationOn(f, Get(f.data)).value
                  /\ f.result.source = "primary"
           /\ f.result.source = "primary" =>
                  /\ succeeded
                  /\ f.failures <= retryConfig.maxRetries
                  /\ f.invocations = f.failures + 1
                  /\ Len(f.requests) = f.failures + 1
                  /\ Len(f.delays) = f.failures
                  /\ f.retryCount = f.failures

\* C4 witness: two failed requests, then a good response: three requests
C4_Witness ==
    \E c \in Calls :
        /\ frames[c].url = UrlWatch
        /\ frames[c].pc = "done"
        /\ frames[c].failures = 2
        /\ Len(frames[c].requests) = 3
        /\ frames[c].result.success
        /\ frames[c].result.source = "primary"
        /\ frames[c].result.data.title = Some(TestVideo)

\* C5: under the configured policy the delays waited before the 2nd, 3rd and
\* 4th attempts are 1000, 2000 and 4000 ms, in that order: the delays waited
\* so far are a prefix of that sequence, one per failed attempt that is
\* retried.
C5_ConfiguredDelays ==
    \A c \in Made :
        LET f == frames[c]
        IN /\ Len(f.delays) <= 3
           /\ f.delays = SubSeq(<<1000, 2000, 4000>>, 1, Len(f.delays))
           /\ f.invocations = Len(f.delays) + (IF f.pc = "delaying" THEN 0 ELSE 1)

\* C5 witness: the fourth attempt is under way after the three delays
C5_Witness ==
    \E c \in Calls :
        /\ frames[c].pc = "fetching"
        /\ frames[c].invocations = 4
        /\ frames[c].delays = <<1000, 2000, 4000>>

RECURSIVE Scaled(_, _, _)
\* base * factor^k by repeated multiplication
Scaled(base, factor, k) ==
    IF k = 0 THEN base ELSE Scaled(base, factor, k - 1) * factor

\* C6: for every policy with backoffFactor > 1 the delay waited after the
\* (k+1)-th failure is min(baseDelay * backoffFactor^k, maxDelay): it is the
\* uncapped product when that does not exceed maxDelay and maxDelay otherwise,
\* so it never exceeds maxDelay; with base 1000, factor 2 and cap 10000 the
\* delay at k = 4 is 10000.
C6_DelayFormula ==
    \A c \in Calls :
        LET f == frames[c]
            cfg == retryConfig
        IN cfg.backoffFactor > 1 =>
               /\ Len(f.delays) = (IF f.failures <= cfg.maxRetries THEN f.failures
                                                                   ELSE cfg.maxRetries)
               /\ \A i \in 1..Len(f.delays) :
                      LET uncapped == Scaled(cfg.baseDelay, cfg.backoffFactor, i - 1)
                      IN /\ f.delays[i] <= cfg.maxDelay
                         /\ uncapped <= cfg.maxDelay => f.delays[i] = uncapped
                         /\ uncapped > cfg.maxDelay => f.delays[i] = cfg.maxDelay
               /\ (/\ cfg.baseDelay = 1000
                   /\ cfg.backoffFactor = 2
                   /\ cfg.maxDelay = 10000
                   /\ Len(f.delays) >= 5) => f.delays[5] = 10000

\* C6 witness: the fifth delay of the policy {5, 1000, 10000, 2} is capped
C6_Witness ==
    \E c \in Calls :
        /\ retryConfig = [maxRetries |-> 5, baseDelay |-> 1000,
                          maxDelay |-> 10000, backoffFactor |-> 2]
        /\ frames[c].delays = <<1000, 2000, 4000, 8000, 10000>>

\* the URLs of Urls with a playlist id and no 11-character video id
PlaylistOnlyUrls == {UrlPlaylist, UrlShortIdInList}

\* C7: the endpoint is chosen once, before any request: every request of a
\* call goes to the playlist endpoint if a playlist id and no video id was
\* extracted from its URL, and to the oEmbed endpoint in every other case
\* (video id, both, neither); no call contacts both endpoints.
C7_PathChosenOnce ==
    \A c \in Made :
        LET f == frames[c]
            playlistOnly == IsSome(f.playlistId) /\ ~IsSome(f.videoId)
        IN /\ f.videoId = matchVideoId(f.url)
           /\ f.playlistId = matchPlaylistId(f.url)
           /\ playlistOnly <=> f.url \in PlaylistOnlyUrls
           /\ f.path = (IF playlistOnly THEN PlaylistApi ELSE NoEmbed)
           /\ \A i \in 1..Len(f.requests) : f.requests[i] = f.path

\* C7 witness: the playlist path failed four times and the call fell back
\* having contacted the playlist endpoint only
C7_Witness ==
    \E c \in Calls :
        /\ frames[c].url = UrlPlaylist
        /\ frames[c].pc = "done"
        /\ frames[c].result.source = "fallback"
        /\ frames[c].requests = <<PlaylistApi, PlaylistApi, PlaylistApi, PlaylistApi>>

\* the title a successful attempt builds from the decoded body
ServerTitle(f) ==
    IF f.path = PlaylistApi
    THEN JsOr(Get(Get(f.data).playlist_info).title, Some(YouTubePlaylist))
    ELSE JsOr(Get(f.data).title, Some(Untitled))

\* C8: a returned result is tagged 'primary' iff its last attempt succeeded,
\* and then its title is the one built from the body that attempt decoded; it
\* is tagged 'fallback' iff all maxRetries + 1 attempts failed, and then it
\* was built without any decoded body, from the URL alone.
C8_SourceTagsTheTier ==
    \A c \in Settled :
        LET f == frames[c]
        IN /\ f.result.source \in {"primary", "fallback"}
           /\ f.result.source = "primary" <=> f.failures < f.invocations
           /\ f.result.source = "fallback" <=>
                  /\ f.failures = f.invocations
                  /\ f.invocations = retryConfig.maxRetries + 1
           /\ f.result.source = "primary" =>
                  /\ IsSome(f.data)
                  /\ f.result.data.title = ServerTitle(f)
           /\ f.result.source = "fallback" =>
                  /\ f.data = None
                  /\ f.result.data.title \in
                         {Some(extractTitleFromUrl(f.url)), Some(Untitled)}

\* C8 witness: three failed attempts, then a success: the result is tagged
\* with the tier that produced it
C8_Witness ==
    \E c \in Calls :
        /\ frames[c].pc = "done"
        /\ frames[c].failures = 3
        /\ frames[c].result.source = "primary"
        /\ frames[c].result.data.title = Some(TestPlaylist)

\* C9: every returned result has success = true unless fetchWithFallback's own
\* synthesis raised an error; only then success = false, the source is
\* 'fallback' and the error field carries the raised error's message.
\* Failures of the endpoint alone never give success = false.
C9_SuccessUnlessSynthesisThrew ==
    \A c \in Settled :
        LET f == frames[c]
            r == f.result
        IN /\ r.success <=> ~(r.source = "fallback" /\ IsSome(f.fault))
           /\ ~r.success =>
                  /\ r.source = "fallback"
                  /\ IsSome(f.fault)
                  /\ r.error = f.fault
           /\ r.success => r.error = None
           /\ f.fault = None => r.success

\* C9 witness: four failed attempts and a fallback result with success = true
C9_Witness ==
    \E c \in Calls :
        /\ frames[c].pc = "done"
        /\ frames[c].failures = 4
        /\ frames[c].lastError.kind = "not ok"
        /\ frames[c].fault = None
        /\ frames[c].result.source = "fallback"
        /\ frames[c].result.success

\* C10: the title of a synthesized fallback result depends on the extracted
\* ids only: 'YouTube Video (<videoId>)' whenever a video id was extracted,
\* also beside a playlist id; otherwise 'YouTube Playlist (<playlistId>)'
\* when a playlist id was extracted; otherwise 'YouTube Content'.
C10_FallbackTitle ==
    \A c \in Settled :
        LET f == frames[c]
        IN (f.result.source = "fallback" /\ f.result.success) =>
               /\ f.result.data.title =
                      Some(IF IsSome(f.videoId)
                           THEN YouTubeVideoOpen \o Get(f.videoId) \o CloseParen
                           ELSE IF IsSome(f.playlistId)
                           THEN YouTubePlaylistOpen \o Get(f.playlistId) \o CloseParen
                           ELSE YouTubeContent)
               /\ f.url \in {UrlWatch, UrlShortLink, UrlWatchInList} =>
                      f.result.data.title =
                          Some(YouTubeVideoOpen \o SampleVideoId \o CloseParen)
               /\ f.url \in {UrlPlaylist, UrlShortIdInList} =>
                      f.result.data.title =
                          Some(YouTubePlaylistOpen \o SamplePlaylistId \o CloseParen)
               /\ f.url \in {UrlShortId, UrlNoId, UrlLoneSurrogate, <<>>} =>
                      f.result.data.title = Some(YouTubeContent)

\* C10 witness: a URL with a video id and a playlist id fell back to the
\* video title
C10_Witness ==
    \E c \in Calls :
        /\ frames[c].url = UrlWatchInList
        /\ IsSome(frames[c].playlistId)
        /\ frames[c].result.source = "fallback"
        /\ frames[c].result.data.title =
               Some(YouTubeVideoOpen \o SampleVideoId \o CloseParen)

\* C11: the thumbnail of a synthesized fallback result is
\* 'https://img.youtube.com/vi/<videoId>/mqdefault.jpg' if and only if a video
\* id was extracted from the URL, and the sentinel 'placeholder' otherwise, in
\* particular for a playlist-only URL; the id in it is the one the branch was
\* selected with and the one in the fallback title.
C11_FallbackThumbnail ==
    \A c \in Settled :
        LET f == frames[c]
            r == f.result
        IN (r.source = "fallback" /\ r.success) =>
               /\ r.data.thumbnailUrl =
                      IF IsSome(f.videoId)
                      THEN Some(ThumbPrefix \o Get(f.videoId) \o ThumbSuffix)
                      ELSE Some(Placeholder)
               /\ r.data.thumbnailUrl = Some(Placeholder) <=> ~IsSome(f.videoId)
               /\ IsSome(f.videoId) =>
                      /\ f.path = NoEmbed
                      /\ r.data.title =
                             Some(YouTubeVideoOpen \o Get(f.videoId) \o CloseParen)
               /\ f.url \in {UrlWatch, UrlShortLink, UrlWatchInList} =>
                      r.data.thumbnailUrl = Some(SampleThumbnail)
               /\ f.url \in PlaylistOnlyUrls =>
                      /\ f.path = PlaylistApi
                      /\ r.data.thumbnailUrl = Some(Placeholder)

\* C11 witness: a playlist-only URL fell back to the sentinel thumbnail
C11_Witness ==
    \E c \in Calls :
        /\ frames[c].pc = "done"
        /\ frames[c].url = UrlPlaylist
        /\ frames[c].videoId = None
        /\ frames[c].result.source = "fallback"
        /\ frames[c].result.data.thumbnailUrl = Some(Placeholder)

\* the inputs neither a video id nor a playlist id is extracted from
NoIdUrls == {UrlShortId, UrlNoId, UrlLoneSurrogate, <<>>}

\* C12: for a string from which neither id is extracted fetchVideoData does
\* not throw and takes the video path, so only the oEmbed endpoint is
\* contacted; when all attempts fail it returns success = true, source
\* 'fallback', title 'YouTube Content' and thumbnail 'placeholder'.
C12_NoIdTakesVideoPath ==
    \A c \in Made :
        LET f == frames[c]
        IN /\ f.url \in NoIdUrls => (f.videoId = None /\ f.playlistId = None)
           /\ (f.videoId = None /\ f.playlistId = None) =>
                  /\ f.settled # "rejected"
                  /\ f.path = NoEmbed
                  /\ \A i \in 1..Len(f.requests) : f.requests[i] = NoEmbed
                  /\ (f.pc = "done" /\ f.failures = f.invocations /\ f.fault = None) =>
                         f.result = ApiResponse(Some(YouTubeContent), Some(Placeholder),
                                                TRUE, None, "fallback")

\* C12 witness: a page address without any id, four requests to the oEmbed
\* endpoint, all failed, and the generic fallback result
C12_Witness ==
    \E c \in Calls :
        /\ frames[c].pc = "done"
        /\ frames[c].url = UrlNoId
        /\ frames[c].requests = <<NoEmbed, NoEmbed, NoEmbed, NoEmbed>>
        /\ frames[c].failures = 4
        /\ frames[c].result.source = "fallback"
        /\ frames[c].result.data.title = Some(YouTubeContent)

\* C13: a success on the video path is tagged 'primary'; its title is the
\* server's title, 'Untitled' when the server gave none; its thumbnail is the
\* canonical per-id URL whenever a video id was extracted locally, whatever
\* thumbnail_url the server sent, and the server's thumbnail_url only when no
\* video id was extracted.
C13_VideoPathSuccess ==
    \A c \in Settled :
        LET f == frames[c]
            r == f.result
        IN (f.path = NoEmbed /\ f.failures < f.invocations) =>
               /\ r.source = "primary"
               /\ r.success
               /\ IsSome(f.data)
               /\ Truthy(Get(f.data).title) => r.data.title = Get(f.data).title
               /\ ~Truthy(Get(f.data).title) => r.data.title = Some(Untitled)
               /\ IsSome(f.videoId) =>
                      r.data.thumbnailUrl =
                          Some(ThumbPrefix \o Get(f.videoId) \o ThumbSuffix)
               /\ f.url \in {UrlWatch, UrlShortLink, UrlWatchInList} =>
                      r.data.thumbnailUrl = Some(SampleThumbnail)
               /\ ~IsSome(f.videoId) =>
                      r.data.thumbnailUrl = Get(f.data).thumbnail_url

\* C13 witness: the server sent its own thumbnail_url for a URL with a video
\* id and the result carries the canonical one
C13_Witness ==
    \E c \in Calls :
        /\ frames[c].pc = "done"
        /\ frames[c].url = UrlWatch
        /\ frames[c].result.source = "primary"
        /\ IsSome(frames[c].data)
        /\ Get(frames[c].data).thumbnail_url = Some(ServerThumb)
        /\ frames[c].result.data.thumbnailUrl = Some(SampleThumbnail)

\* C14: a success on the playlist path is tagged 'primary'; its title is the
\* server's playlist title, 'YouTube Playlist' when absent; its thumbnail is
\* the thumbnail of the first playlist item, 'placeholder' when that item has
\* none; the thumbnails of later items are never used.
C14_PlaylistPathSuccess ==
    \A c \in Settled :
        LET f == frames[c]
            r == f.result
        IN (f.path = PlaylistApi /\ f.failures < f.invocations) =>
               /\ r.source = "primary"
               /\ r.success
               /\ IsSome(f.data)
               /\ LET info == Get(Get(f.data).playlist_info)
                      first == Get(info.items)[1]
                  IN /\ Truthy(info.title) => r.data.title = info.title
                     /\ ~Truthy(info.title) => r.data.title = Some(YouTubePlaylist)
                     /\ Truthy(first.thumbnail) =>
                            r.data.thumbnailUrl = first.thumbnail
                     /\ ~Truthy(first.thumbnail) =>
                            r.data.thumbnailUrl = Some(Placeholder)

\* C14 witness: the first item has no thumbnail, the second has one, and the
\* result carries the sentinel
C14_Witness ==
    \E c \in Calls :
        /\ frames[c].pc = "done"
        /\ frames[c].path = PlaylistApi
        /\ frames[c].result.source = "primary"
        /\ IsSome(frames[c].data)
        /\ Get(Get(Get(frames[c].data).playlist_info).items) =
               <<Item(None), Item(Some(ServerThumb2))>>
        /\ frames[c].result.data.thumbnailUrl = Some(Placeholder)

\* the latest attempt of the call returned a value
AttemptSucceeded(f) == f.pc = "done" /\ f.failures < f.invocations

\* the latest attempt of the call threw
AttemptFailed(f) == f.invocations > 0 /\ f.failures = f.invocations

\* the body the latest attempt decoded, None when it decoded none
AttemptBody(f) == IF f.failures < f.invocations THEN f.data ELSE f.failedOn

\* the failure of the latest attempt is with the retrier: it waits for the
\* next attempt while retries are left and reaches the fallback otherwise
HandedToRetrier(f) ==
    /\ f.settled # "rejected"
    /\ f.lastError.attempt = f.invocations
    /\ IF f.retryCount < retryConfig.maxRetries
       THEN f.pc = "delaying"
       ELSE /\ f.pc \in {"fallback", "done"}
            /\ f.caught = f.lastError
            /\ f.pc = "done" => f.result.source = "fallback"

StatusNotOk(f) == f.delivered # 0 /\ ~ResponseOk(f.delivered)

\* the decoded body has no playlist_info, or one without items, or one whose
\* items are empty
PlaylistInfoUnusable(body) ==
    IF ~IsSome(body.playlist_info) THEN TRUE
    ELSE IF ~IsSome(Get(body.playlist_info).items) THEN TRUE
    ELSE Len(Get(Get(body.playlist_info).items)) = 0

\* C15 as stated: a playlist-path attempt is a failure handed to the retrier
\* when the status is not OK, when the body has an error field, has no
\* playlist_info, has a playlist_info without items or with empty items; it
\* is a success only when none of these holds.
C15_AnyErrorFieldFails ==
    \A c \in Made :
        LET f == frames[c]
        IN f.path = PlaylistApi =>
               /\ f.settled # "rejected"
               /\ AttemptFailed(f) => HandedToRetrier(f)
               /\ AttemptSucceeded(f) =>
                      /\ ~StatusNotOk(f)
                      /\ IsSome(f.data)
                      /\ ~IsSome(Get(f.data).error)
                      /\ ~PlaylistInfoUnusable(Get(f.data))

\* C15: a playlist-path attempt is a failure handed to the retrier, never a
\* primary success and never an error escaping the retrier, when the status is
\* not OK, when the body has a truthy error field, has no playlist_info, has
\* a playlist_info without items or with empty items; it is a success only
\* when none of these holds. An error field with a falsy value does not make
\* the attempt fail.
C15_PlaylistAttemptFailures ==
    \A c \in Made :
        LET f == frames[c]
        IN f.path = PlaylistApi =>
               /\ f.settled # "rejected"
               /\ AttemptFailed(f) => HandedToRetrier(f)
               /\ AttemptSucceeded(f) =>
                      /\ ~StatusNotOk(f)
                      /\ ResponseOk(f.status)
                      /\ IsSome(f.data)
                      /\ Get(f.data).kind = "object"
                      /\ ~Truthy(Get(f.data).error)
                      /\ ~PlaylistInfoUnusable(Get(f.data))
               /\ (AttemptFailed(f) /\ StatusNotOk(f)) =>
                      /\ f.lastError.kind = "not ok"
                      /\ f.failedOn = None
               /\ (AttemptFailed(f) /\ IsSome(f.failedOn)) =>
                      LET body == Get(f.failedOn)
                      IN \/ body.kind \in {"malformed", "null"}
                         \/ Truthy(body.error)
                         \/ PlaylistInfoUnusable(body)

\* C15 witness: a body whose playlist_info has no items made the attempt
\* throw a TypeError, and the retrier waits for the next attempt
C15_Witness ==
    \E c \in Calls :
        /\ frames[c].path = PlaylistApi
        /\ frames[c].pc = "delaying"
        /\ frames[c].lastError.kind = "TypeError"
        /\ frames[c].failedOn =
               Some(Object(None, None, None, Some(PlaylistInfo(Some(TestPlaylist), None))))

\* the request of the latest attempt failed at the network level or was aborted
RequestFailed(f) ==
    /\ Len(f.requests) = f.invocations
    /\ f.request \in {"failed", "aborted"}

\* the latest attempt threw before it issued a request: encodeURIComponent
\* rejected the URL
AddressNotBuilt(f) == Len(f.requests) < f.invocations

BodyUndecodable(f) == IsSome(AttemptBody(f)) /\ Get(AttemptBody(f)).kind = "malformed"

BodyIsNull(f) == IsSome(AttemptBody(f)) /\ Get(AttemptBody(f)).kind = "null"

BodyHasTruthyError(f) ==
    /\ IsSome(AttemptBody(f))
    /\ Get(AttemptBody(f)).kind = "object"
    /\ Truthy(Get(AttemptBody(f)).error)

\* the video-path attempts that have ended
VideoAttempts ==
    {c \in Made : /\ frames[c].path = NoEmbed
                  /\ AttemptSucceeded(frames[c]) \/ AttemptFailed(frames[c])}

\* C16 as stated: a video-path attempt is a failure iff the request failed or
\* timed out, the status is not OK, the body cannot be decoded, or the decoded
\* body has a truthy error field.
C16_FourCausesOnly ==
    \A c \in VideoAttempts :
        LET f == frames[c]
        IN AttemptFailed(f) <=>
               \/ RequestFailed(f)
               \/ StatusNotOk(f)
               \/ BodyUndecodable(f)
               \/ BodyHasTruthyError(f)

\* C16: a video-path attempt is a failure handed to the retrier iff the
\* address of the request could not be built, the request failed or timed
\* out, the status is not OK, the body cannot be decoded, the decoded body is
\* null, or the decoded body has a truthy error field; an OK response decoded
\* to an object without a truthy error field is a success even when it has
\* neither title nor thumbnail_url.
C16_VideoAttemptFailures ==
    \A c \in VideoAttempts :
        LET f == frames[c]
        IN /\ AttemptFailed(f) <=>
                  \/ AddressNotBuilt(f)
                  \/ RequestFailed(f)
                  \/ StatusNotOk(f)
                  \/ BodyUndecodable(f)
                  \/ BodyIsNull(f)
                  \/ BodyHasTruthyError(f)
           /\ AttemptFailed(f) => HandedToRetrier(f)
           /\ AttemptSucceeded(f) =>
                  /\ ResponseOk(f.status)
                  /\ f.result.source = "primary"
                  /\ f.result.success

\* C16 witness: an OK response with an empty object for a URL without a video
\* id is a success without title and thumbnail
C16_Witness ==
    \E c \in Calls :
        /\ frames[c].path = NoEmbed
        /\ AttemptSucceeded(frames[c])
        /\ frames[c].videoId = None
        /\ frames[c].data = Some(Object(None, None, None, None))
        /\ frames[c].result.data.title = Some(Untitled)
        /\ frames[c].result.data.thumbnailUrl = None

\* the calls of fetchWithTimeout by checkApiHealth that have been made
Probes == {i \in 1..2 : health.probes[i].request # "none"}

\* C17: fetchWithTimeout returns the response the transport delivered before
\* the deadline unchanged and without raising, whatever its status; a status
\* that is not OK becomes a failure only in the caller: the resolution paths
\* throw on it, checkApiHealth counts the probe as fulfilled.
C17_ResponseReturnedUntouched ==
    /\ \A c \in Made :
           LET f == frames[c]
           IN f.delivered # 0 =>
                  /\ f.request = "responded"
                  /\ f.lastError.kind # "HTTPError"
                  /\ IF f.status # 0 THEN f.status = f.delivered
                     ELSE /\ AttemptFailed(f)
                          /\ f.failedStatus = f.delivered
                  /\ (AttemptFailed(f) /\ ~ResponseOk(f.delivered)) =>
                         /\ f.lastError.kind = "not ok"
                         /\ f.failedOn = None
    /\ \A i \in Probes :
           LET q == health.probes[i]
           IN q.delivered # 0 =>
                  /\ q.request = "responded"
                  /\ q.status = q.delivered
                  /\ q.settled = "fulfilled"

\* C17 witness: a 404 response reached the video or playlist operation, which
\* threw on it, and a 500 response fulfilled a probe
C17_Witness ==
    /\ \E c \in Calls :
           /\ frames[c].pc = "delaying"
           /\ frames[c].failedStatus = 404
           /\ frames[c].lastError.kind = "not ok"
    /\ health.probes[1].delivered = 500
    /\ health.probes[1].settled = "fulfilled"

\* the timers of setTimeout that are pending
ArmedTimers ==
    Cardinality({c \in Calls : frames[c].timer # 0})
        + Cardinality({i \in 1..2 : health.probes[i].timer # 0})

\* the requests that have neither been answered nor failed
OutstandingRequests ==
    Cardinality({c \in Calls : frames[c].request = "pending"})
        + Cardinality({i \in 1..2 : health.probes[i].request = "pending"})

\* C18: the timer of a call of fetchWithTimeout is pending exactly while its
\* request is outstanding: once the call has returned a response or failed
\* the timer is cleared, so the number of pending timers equals the number of
\* outstanding requests across attempts, retries and probes, and no request
\* is aborted after its call settled.
C18_NoLeakedTimers ==
    /\ \A c \in Calls :
           /\ frames[c].timer # 0 <=> frames[c].request = "pending"
           /\ frames[c].request \in {"responded", "failed", "aborted"} =>
                  frames[c].timer = 0
           /\ ~frames[c].lateAbort
    /\ \A i \in 1..2 :
           /\ health.probes[i].timer # 0 <=> health.probes[i].request = "pending"
           /\ health.probes[i].request \in {"responded", "failed", "aborted"} =>
                  health.probes[i].timer = 0
           /\ ~health.probes[i].lateAbort
    /\ ArmedTimers = OutstandingRequests

\* C18 witness: during the third attempt of a call, after two failed requests,
\* one probe has failed and the other is outstanding: two timers are pending
C18_Witness ==
    /\ \E c \in Calls :
           /\ frames[c].invocations = 3
           /\ frames[c].failures = 2
           /\ frames[c].request = "pending"
    /\ health.probes[1].request = "failed"
    /\ health.probes[2].request = "pending"
    /\ ArmedTimers = 2

\* C19: the timer of a resolution attempt is set to 10000 ms and that of a
\* health probe to 5000 ms; when it fires on a request that has not
\* completed, the abort signal of the request is raised and the call fails
\* with the abort error; a call whose timer fired never returns a response.
C19_TimeoutAborts ==
    /\ \A c \in Calls :
           LET f == frames[c]
           IN /\ f.request = "pending" => f.timer = 10000
              /\ f.fired =>
                     /\ f.signal
                     /\ f.request = "aborted"
                     /\ f.delivered = 0
                     /\ AttemptFailed(f)
                     /\ f.lastError = [kind |-> "AbortError", attempt |-> f.invocations]
    /\ \A i \in 1..2 :
           LET q == health.probes[i]
           IN /\ q.request = "pending" => q.timer = 5000
              /\ q.fired =>
                     /\ q.signal
                     /\ q.request = "aborted"
                     /\ q.delivered = 0
                     /\ q.settled = "rejected"

\* C19 witness: the timer of the fourth attempt and the timer of the playlist
\* probe have fired
C19_Witness ==
    /\ \E c \in Calls :
           /\ frames[c].invocations = 4
           /\ frames[c].fired
           /\ frames[c].caught.kind = "AbortError"
    /\ health.probes[2].fired
    /\ health.probes[2].settled = "rejected"

\* C20: the report of checkApiHealth is made when both probes have settled,
\* in either order; noembed is true iff the oEmbed probe was fulfilled and
\* youtubemultidownloader is true iff the playlist probe was fulfilled, so the
\* failure or the timeout of one probe leaves the flag of the other alone.
C20_ProbeIndependence ==
    /\ health.pc = "probing" => \E i \in 1..2 : health.probes[i].settled = "pending"
    /\ health.pc = "done" =>
           /\ \A i \in 1..2 : health.probes[i].settled \in {"fulfilled", "rejected"}
           /\ health.order \in {<<1, 2>>, <<2, 1>>}
           /\ health.result.noembed <=> health.probes[1].settled = "fulfilled"
           /\ health.result.youtubemultidownloader <=>
                  health.probes[2].settled = "fulfilled"
           /\ health.result.noembed <=> health.probes[1].request = "responded"
           /\ health.result.youtubemultidownloader <=>
                  health.probes[2].request = "responded"
           /\ health.probes[1].requests = <<NoEmbed>>
           /\ health.probes[2].requests = <<PlaylistApi>>

\* C20 witness: the playlist probe was answered first, the oEmbed probe timed
\* out after it, and only the oEmbed flag is false
C20_Witness ==
    /\ health.pc = "done"
    /\ health.order = <<2, 1>>
    /\ health.probes[1].request = "aborted"
    /\ health.probes[2].request = "responded"
    /\ health.result = HealthReport(FALSE, TRUE)

\* C21: checkApiHealth issues exactly one request to each of the two
\* endpoints and never another, issues both before either has settled,
\* returns only after both have settled, and is fulfilled, never rejected,
\* whatever the probes do.
C21_TwoProbesOnce ==
    /\ health.settled # "rejected"
    /\ health.pc = "idle" =>
           \A i \in 1..2 : health.probes[i].requests = <<>>
    /\ health.pc # "idle" =>
           /\ \A i \in 1..2 :
                  /\ health.probes[i].requests = <<ProbeEndpoints[i]>>
                  /\ health.probes[i].request # "none"
           /\ health.probes[1].requests \o health.probes[2].requests =
                  <<NoEmbed, PlaylistApi>>
    /\ health.pc = "done" <=> health.settled = "fulfilled"
    /\ health.pc = "done" <=>
           /\ Len(health.order) = 2
           /\ \A i \in 1..2 : health.probes[i].settled # "pending"
    /\ health.pc = "probing" => health.settled = "pending"

\* C21 witness: one probe failed at the network level, the other timed out,
\* and checkApiHealth returned after two requests
C21_Witness ==
    /\ health.pc = "done"
    /\ health.settled = "fulfilled"
    /\ health.probes[1].request = "failed"
    /\ health.probes[2].request = "aborted"
    /\ health.probes[1].requests \o health.probes[2].requests = <<NoEmbed, PlaylistApi>>

\* the result a settled call has when it depends on its own URL and on the
\* outcomes of its own requests only
ExpectedResult(f) ==
    IF AttemptSucceeded(f)
    THEN operationOn(f, Get(f.data)).value
    ELSE fetchWithFallback(f.url, getYouTubeID(f.url), f.fault)

\* C22: a step of checkApiHealth or of one of its probes changes neither the
\* retry policy nor anything of a resolution; the policy stays the configured
\* one, and with a health check before, after or beside it a resolution
\* selects its branch from its URL, makes at most maxRetries + 1 attempts and
\* returns the result its own URL and its own responses give.
C22_HealthCheckFrame ==
    [][ /\ health' # health => (retryConfig' = retryConfig /\ frames' = frames)
        /\ retryConfig' = ConfiguredPolicy
        /\ \A c \in Calls :
               LET f == frames'[c]
               IN /\ f.pc \notin {"off", "idle"} =>
                         /\ f.path = choosePath(getYouTubeID(f.url),
                                                getYouTubePlaylistID(f.url))
                         /\ f.invocations <= CfgMaxRetries + 1
                         /\ f.retryCount = f.invocations - 1
                         /\ f.failures \in {f.invocations - 1, f.invocations}
                  /\ f.pc = "fallback" => f.failures = CfgMaxRetries + 1
                  /\ f.pc = "done" => f.result = ExpectedResult(f)
      ]_vars

\* C22 witness: a resolution returned a primary result of its third attempt
\* while a health check was waiting for its second probe
C22_Witness ==
    /\ health.pc = "probing"
    /\ Len(health.order) = 1
    /\ \E c \in Calls :
           /\ frames[c].pc = "done"
           /\ frames[c].invocations = 3
           /\ frames[c].result.source = "primary"

\* C23: a resolution has at most one request outstanding; a request is
\* issued only by a call that has none outstanding, and a retry only after the
\* request before it has settled and the backoff delay scheduled after it has
\* elapsed.
C23_OneRequestAtATime ==
    [][ \A c \in Calls :
            LET f == frames[c]
                g == frames'[c]
            IN /\ g.outstanding \in {0, 1}
               /\ g.outstanding = 1 <=> g.request = "pending"
               /\ g.request = "pending" <=> g.pc = "fetching"
               /\ g.pc = "delaying" =>
                      /\ g.outstanding = 0
                      /\ Len(g.delays) = g.failures
               /\ Len(g.requests) > Len(f.requests) =>
                      /\ Len(g.requests) = Len(f.requests) + 1
                      /\ f.outstanding = 0
                      /\ f.pc \in {"idle", "delaying"}
                      /\ f.pc = "delaying" =>
                             /\ f.request \in {"responded", "failed", "aborted"}
                             /\ Len(f.delays) = f.invocations
                             /\ g.invocations = f.invocations + 1
      ]_vars

\* C23 witness: the fourth request is outstanding after three requests that
\* settled and three delays
C23_Witness ==
    \E c \in Calls :
        /\ frames[c].pc = "fetching"
        /\ Len(frames[c].requests) = 4
        /\ Len(frames[c].delays) = 3
        /\ frames[c].outstanding = 1

\* C24: concurrent resolutions on the shared instance share no mutable
\* state: a step of one changes nothing of the other and nothing of the
\* policy; each counts its own attempts and reaches the fallback only after
\* maxRetries + 1 = 4 failures of its own; each returns the result its own URL
\* and its own responses give, under every interleaving.
C24_ConcurrentCallsIndependent ==
    [][ /\ retryConfig' = ConfiguredPolicy
        /\ Cardinality({c \in Calls : frames'[c] # frames[c]}) <= 1
        /\ \A c \in Calls :
               LET g == frames'[c]
               IN /\ g.pc # "idle" =>
                         /\ g.invocations \in 1..4
                         /\ g.retryCount = g.invocations - 1
                         /\ g.failures \in {g.invocations - 1, g.invocations}
                         /\ Len(g.delays) \in {g.failures - 1, g.failures}
                  /\ g.pc = "delaying" => g.failures < 4
                  /\ g.pc = "fallback" => g.failures = 4
                  /\ g.pc = "done" =>
                         /\ g.result = ExpectedResult(g)
                         /\ g.result.source = "fallback" => g.failures = 4
      ]_vars

\* C24 witness: two calls for the same URL; one fell back after four failed
\* attempts of its own, the other returned the result of its fourth attempt
C24_Witness ==
    /\ frames["c1"].url = frames["c2"].url
    /\ frames["c1"].pc = "done"
    /\ frames["c1"].failures = 4
    /\ frames["c1"].result.source = "fallback"
    /\ frames["c2"].pc = "done"
    /\ frames["c2"].invocations = 4
    /\ frames["c2"].result.source = "primary"

\* C25: at every point where an attempt of a resolution waits for the
\* endpoint, for the response and for the decoding of its body alike, the
\* timeout timer of the attempt is armed.
C25_EveryWaitHasTimer ==
    \A c \in Calls :
        frames[c].pc \in {"fetching", "decoding"} => frames[c].timer # 0

C27_ResultFieldsAreStrings ==
    \A c \in Settled :
        frames[c].result.success =>
            /\ IsSome(frames[c].result.data.title)
            /\ IsSome(frames[c].result.data.thumbnailUrl)

\* C28: a video id returned by the extractor is exactly 11 characters long;
\* when the matched candidate is shorter ('watch?v=short', or empty) or longer
\* the extractor returns null, never the candidate or a part of it.
C28_IdLengthGate ==
    \A c \in Made :
        LET f == frames[c]
        IN /\ IsSome(f.videoId) => Len(Get(f.videoId)) = 11
           /\ f.url \in {UrlShortId, UrlEmptyId, UrlLongId} => f.videoId = None
           /\ f.url = UrlLongId => f.videoId # Some(SampleVideoId)

\* C28 witness: a call for a URL whose candidate has 13 characters went on
\* without a video id
C28_Witness ==
    \E c \in Calls :
        /\ frames[c].url = UrlLongId
        /\ frames[c].pc = "done"
        /\ frames[c].videoId = None

\* the strings of ExtractorUrls that hold the sample id in a recognized shape
SampleIdUrls ==
    {UrlShortLink, UrlShortLinkAt, UrlWatch, UrlWatchInList, UrlMixList, UrlEmbed,
     UrlV, UrlAndV}

\* the strings of ExtractorUrls without any of the delimiters
ShapelessUrls ==
    {UrlNoId, <<>>, UrlPlaylist, UrlTwoLists, UrlListFragment, UrlNotAListParam,
     UrlEmptyList}

\* C29: the extractor returns the 11-character id of a short link
\* (youtu.be/<id>), of a watch?v=<id> URL, of an embed/<id> URL, of a v/<id>
\* URL and of a URL with &v=<id>, exactly; for a string of none of these
\* shapes it returns null; it never throws, the call goes on either way.
C29_VideoIdShapes ==
    \A c \in Made :
        LET f == frames[c]
        IN /\ f.url \in SampleIdUrls => f.videoId = Some(SampleVideoId)
           /\ f.url \in ShapelessUrls => f.videoId = None
           /\ f.settled # "rejected"
           /\ f.path \in {NoEmbed, PlaylistApi}
           /\ f.invocations >= 1

\* C29 witness: a call for an embed/ URL whose fallback result carries the id
C29_Witness ==
    \E c \in Calls :
        /\ frames[c].url = UrlEmbed
        /\ frames[c].videoId = Some(SampleVideoId)
        /\ frames[c].result.source = "fallback"
        /\ frames[c].result.data.thumbnailUrl = Some(SampleThumbnail)

\* C30: the playlist extractor returns the characters after the first '?list='
\* or '&list=' that is followed by at least one character other than '#', '&'
\* and '?', up to the next of these, whatever their number; it returns null
\* when there is no such parameter, and it never throws.
C30_PlaylistIdRawValue ==
    \A c \in Made :
        LET f == frames[c]
        IN /\ f.url \in {UrlPlaylist, UrlWatchInList} =>
                  f.playlistId = Some(SamplePlaylistId)
           /\ f.url = UrlMixList => f.playlistId = Some(MixListId)
           /\ f.url = UrlTwoLists => f.playlistId = Some(WatchLaterId)
           /\ f.url = UrlListFragment => f.playlistId = Some(LikedListId)
           /\ f.url \in {UrlNotAListParam, UrlEmptyList, UrlNoId, <<>>, UrlWatch,
                         UrlShortLink, UrlEmbed, UrlV, UrlAndV, UrlShortLinkAt,
                         UrlShortId, UrlLongId, UrlEmptyId} =>
                  f.playlistId = None
           /\ IsSome(f.playlistId) => Len(Get(f.playlistId)) >= 1
           /\ f.settled # "rejected"

\* C30 witness: of two list parameters the first, two characters long, is
\* returned and the call took the playlist path
C30_Witness ==
    \E c \in Calls :
        /\ frames[c].url = UrlTwoLists
        /\ frames[c].playlistId = Some(WatchLaterId)
        /\ frames[c].path = PlaylistApi

\* C35: an invocation that fails is the last one exactly when the retries
\* already made (retryCount) equal maxRetries: then the failure of that very
\* invocation reaches the caller's catch block, otherwise a delay is started;
\* with maxRetries = 0 the first failure is propagated after one invocation
\* and no delay.
C35_StopsAtMaxRetries ==
    [][\A c \in Calls :
           LET f == frames[c]
               g == frames'[c]
               n == retryConfig.maxRetries
           IN g.failures = f.failures + 1 =>
                  /\ g.invocations = g.retryCount + 1
                  /\ g.lastError.attempt = g.invocations
                  /\ g.pc = "fallback" <=> g.retryCount = n
                  /\ g.pc = "delaying" <=> g.retryCount < n
                  /\ g.pc = "fallback" =>
                         /\ g.caught = g.lastError
                         /\ g.caught.attempt = n + 1
                         /\ g.delays = f.delays
                  /\ g.pc = "delaying" => g.caught = NoError
                  /\ n = 0 =>
                         /\ g.pc = "fallback"
                         /\ g.invocations = 1
                         /\ g.delays = <<>>]_vars

\* C35 witness: under maxRetries = 2 the third invocation timed out after two
\* retries, and its failure is the one in the caller's catch block
C35_Witness ==
    \E c \in Calls :
        /\ retryConfig.maxRetries = 2
        /\ frames[c].pc = "fallback"
        /\ frames[c].retryCount = 2
        /\ frames[c].invocations = 3
        /\ frames[c].caught = [kind |-> "AbortError", attempt |-> 3]

\* C36: delays lie between invocations only: the first invocation is made
\* with no delay before it, every later one is made when the delay started by
\* the failure before it has elapsed, a delay is started only by a failed
\* invocation that is retried, and the failure that is propagated starts
\* none; m invocations are separated by m - 1 delays, and while a delay is
\* pending no invocation is under way.
C36_DelaysOnlyBetweenAttempts ==
    [][\A c \in Calls :
           LET f == frames[c]
               g == frames'[c]
           IN /\ g.invocations # f.invocations =>
                     /\ g.invocations = f.invocations + 1
                     /\ IF f.invocations = 0
                        THEN f.pc = "idle" /\ f.delays = <<>>
                        ELSE f.pc = "delaying" /\ Len(f.delays) = f.invocations
              /\ g.delays # f.delays =>
                     /\ g.failures = f.failures + 1
                     /\ g.pc = "delaying"
                     /\ Len(g.delays) = Len(f.delays) + 1
                     /\ g.retryCount < retryConfig.maxRetries
              /\ g.pc = "delaying" =>
                     /\ g.request # "pending"
                     /\ g.outstanding = 0
                     /\ g.timer = 0
                     /\ Len(g.delays) = g.invocations
              /\ g.pc \in {"fetching", "decoding", "fallback", "done"} =>
                     Len(g.delays) = g.invocations - 1]_vars

\* C36 witness: four invocations, the last of which failed for good, and
\* three delays
C36_Witness ==
    \E c \in Calls :
        /\ retryConfig.maxRetries = 3
        /\ frames[c].pc = "fallback"
        /\ frames[c].invocations = 4
        /\ Len(frames[c].delays) = 3

\* C37: in the report of checkApiHealth a provider is true exactly when its
\* probe was answered before the 5000 ms timer fired, whatever the status of
\* the answer (404 and 500 included), and false exactly when the request
\* failed at the network level or the timer aborted it.
C37_AnyResponseIsHealthy ==
    health.pc = "done" =>
        \A i \in 1..2 :
            LET q == health.probes[i]
                flag == IF i = 1 THEN health.result.noembed
                                 ELSE health.result.youtubemultidownloader
            IN /\ flag <=> (q.delivered \in Statuses /\ ~q.fired)
               /\ q.delivered \in {404, 500} => flag
               /\ ~flag <=> q.request \in {"failed", "aborted"}
               /\ q.request = "aborted" <=> q.fired
               /\ q.requests = <<ProbeEndpoints[i]>>

\* C37 witness: the oEmbed probe was answered with 404, the playlist probe
\* with 500, and both providers are reported healthy
C37_Witness ==
    /\ health.pc = "done"
    /\ health.probes[1].delivered = 404
    /\ health.probes[2].delivered = 500
    /\ health.result = HealthReport(TRUE, TRUE)


\* C34: when the awaited function rejects, handleAsyncError classifies the
\* error by its message, case-sensitively and in a fixed order: 'network' or
\* 'fetch' gives type network with the fixed network message; else
\* 'validation' or 'Invalid' gives type validation with the error's own
\* message; else 'API' or 'response' gives type api with the fixed service
\* message; else type unknown with the caller's message, or 'An unexpected
\* error occurred' when there is none. The caller's message is used in the
\* last case only; the call returns null and hasError is true in every case.
C34_ClassifiesByMessage ==
    [][(hook.pc = "awaiting" /\ hook'.pc = "returned" /\ IsSome(hook'.thrown)) =>
        LET m == Get(hook'.thrown)
            custom == hook.errorMessage
            e == hook'.error
            network == Includes(m, KwNetwork) \/ Includes(m, KwFetch)
            validation == Includes(m, KwValidation) \/ Includes(m, KwInvalid)
            api == Includes(m, KwApi) \/ Includes(m, KwResponse)
        IN /\ hook'.returned = "null"
           /\ e.hasError
           /\ network => e = ErrorState(TRUE, NetworkMessage, "network")
           /\ (~network /\ validation) => e = ErrorState(TRUE, m, "validation")
           /\ (~network /\ ~validation /\ api) =>
                  e = ErrorState(TRUE, ServiceMessage, "api")
           /\ (~network /\ ~validation /\ ~api) =>
                  /\ e.type = "unknown"
                  /\ e.message = IF custom \in {None, Some(<<>>)}
                                 THEN UnexpectedMessage ELSE Get(custom)
           /\ m = ErrInvalidNetwork => e.type = "network"
           /\ m = ErrInvalidApiKey => e = ErrorState(TRUE, ErrInvalidApiKey, "validation")
           /\ m = ErrApiResponse => e = ErrorState(TRUE, ServiceMessage, "api")
           /\ m \in {ErrNetworkOccurred, ErrLowerCase} => e.type = "unknown"
           /\ (IsSome(custom) /\ e.type # "unknown") => e.message # Get(custom)
      ]_vars

\* C34 witness: a call with a custom message whose function rejected with
\* 'Invalid API key' returned null with a validation error that carries the
\* error's own message
C34_Witness ==
    /\ hook.pc = "returned"
    /\ hook.returned = "null"
    /\ hook.errorMessage = Some(CustomMessage)
    /\ hook.thrown = Some(ErrInvalidApiKey)
    /\ hook.error = ErrorState(TRUE, ErrInvalidApiKey, "validation")

\* C31: a step of handleSaveItem in which fetchVideoData resolves with
\* success = true, from the primary API or from the fallback, prepends exactly
\* one item with the title and the thumbnail of the result and sets no error
\* state; a step in which it resolves with success = false or rejects leaves
\* the saved list unchanged and sets an error state; and the saved list
\* changes in no other step of a save.
C31_SavesOnSuccessOnly ==
    [][/\ \A i \in 1..Len(popup.saves) :
            \A response \in Responses[popup.saves[i].url], now \in Clock(popup.now) :
                SaveResolvesStep(i, response, now) =>
                    IF response.success
                    THEN /\ response.source \in {"primary", "fallback"}
                         /\ Len(popup'.items) = Len(popup.items) + 1
                         /\ Tail(popup'.items) = popup.items
                         /\ Head(popup'.items).url = popup.saves[i].url
                         /\ Head(popup'.items).title = response.data.title
                         /\ Head(popup'.items).thumbnail = response.data.thumbnailUrl
                         /\ hook'.error = hook.error
                    ELSE /\ popup'.items = popup.items
                         /\ hook'.error.hasError
       /\ \A i \in 1..Len(popup.saves) :
            \A message \in RejectionMessages :
                SaveRejectsStep(i, message) =>
                    /\ popup'.items = popup.items
                    /\ hook'.error.hasError
       /\ popup'.items # popup.items =>
            /\ Len(popup'.saves) = Len(popup.saves) - 1
            /\ Len(popup'.items) = Len(popup.items) + 1
            /\ hook'.error = hook.error
      ]_vars

\* C31 witness: the saved list holds an item saved from a result of the
\* primary API above one saved from a result of the fallback, and no error
\* state is set
C31_Witness ==
    /\ Len(popup.items) = 2
    /\ popup.items[1].title = Some(TestVideo)
    /\ popup.items[2].title = Some(extractTitleFromUrl(UrlWatch))
    /\ popup.items[2].thumbnail = Some(ThumbnailOf(Get(getYouTubeID(UrlWatch))))
    /\ ~hook.error.hasError

\* C32: a call of handleSaveItem with an empty URL sets the validation error
\* 'Please enter a YouTube URL.', and a call with a URL that holds neither a
\* video id nor a playlist id sets 'Invalid URL. Please enter a valid YouTube
\* video or playlist URL.'; in both cases fetchVideoData is not called,
\* saveState is left as it was, not 'loading', and the saved list is
\* unchanged. Only a URL that passes both checks starts a fetch.
C32_ValidatesBeforeFetching ==
    [][\A url \in SaveUrls, tag \in SaveTags :
          HandleSaveItemStep(url, tag) =>
              LET rejected == url = <<>> \/ (/\ getYouTubeIDInApp(url) = None
                                             /\ getYouTubePlaylistIDInApp(url) = None)
              IN /\ url = <<>> =>
                      hook'.error = ErrorState(TRUE, EnterUrlMessage, "validation")
                 /\ url = UrlInvalid =>
                      /\ rejected
                      /\ hook'.error = ErrorState(TRUE, InvalidUrlMessage, "validation")
                 /\ rejected =>
                      /\ hook'.error.hasError
                      /\ hook'.error.type = "validation"
                      /\ popup'.saves = popup.saves
                      /\ popup'.saveState = popup.saveState
                      /\ popup'.saveState # "loading"
                      /\ popup'.items = popup.items
                      /\ popup'.timers = popup.timers
                 /\ ~rejected =>
                      /\ ~hook'.error.hasError
                      /\ popup'.saves = Append(popup.saves, [url |-> url, tag |-> tag])
                      /\ popup'.saveState = "loading"
                      /\ popup'.items = popup.items
      ]_vars

\* C32 witness: handleSaveItem was called with 'invalid-url' in an idle popup:
\* the error is set, nothing is in flight and nothing was saved
C32_Witness ==
    /\ popup.submissions = 1
    /\ hook.error = ErrorState(TRUE, InvalidUrlMessage, "validation")
    /\ popup.saves = <<>>
    /\ popup.saveState = "idle"
    /\ popup.items = <<>>

\* C33: when fetchVideoData rejects during a save, the error shown is 'Failed
\* to fetch video information. Please try again.' and no item is added to the
\* saved list.
C33_RejectionShowsFetchFailed ==
    [][\A i \in 1..Len(popup.saves) :
          \A message \in RejectionMessages :
              SaveRejectsStep(i, message) =>
                  /\ hook'.error.hasError
                  /\ hook'.error.message = FetchFailedMessage
                  /\ popup'.items = popup.items
      ]_vars

\* C38: whenever a call of fetchVideoData started by handleSaveItem is in
\* flight, saveState is 'loading'.
C38_LoadingWhileInFlight ==
    popup.saves # <<>> => popup.saveState = "loading"

\* C39: every id in selectedItems is the id of an item of the saved list and
\* occurs once, and the count an export reports is the number of items it
\* exported.
C39_SelectionWithinList ==
    /\ \A k \in 1..Len(popup.selectedItems) :
           /\ \E j \in 1..Len(popup.items) : popup.items[j].id = popup.selectedItems[k]
           /\ \A l \in 1..Len(popup.selectedItems) :
                  popup.selectedItems[l] = popup.selectedItems[k] => l = k
    /\ popup.notification.text = "exported" =>
           popup.notification.count = popup.exported.count
====
